---------------------------- MODULE Spec2Model ----------------------------
(***************************************************************************)
(* A model of pypdf's content-stream text-state engine and of its stream   *)
(* filters, translated from the Python sources:                            *)
(*                                                                         *)
(*   _text_extraction/_layout_mode/_text_state_manager.py  TextStateManager *)
(*   _text_extraction/_layout_mode/_fixed_width_page.py    the replay loop *)
(*   filters.py   RunLengthDecode, LZWDecode, FlateDecode._decode_predictor *)
(*                and decode_stream_data                                   *)
(*                                                                         *)
(* Each component has a specification of its own (SpecText, SpecRL,        *)
(* SpecLZW, SpecPredictor, SpecStream); the variables of the other         *)
(* components stay at their idle values.                                   *)
(***************************************************************************)
EXTENDS Integers, Sequences, FiniteSets, TLC

VARIABLES
    \* ---- TextStateManager + text_show_operations / recurs_to_target_op
    transform_stack,  \* ChainMap.maps: list of frames, newest first
    q_queue,          \* Counter[int]: key -> count (absent key reads as 0)
    q_depth,          \* list of q nesting levels
    font,             \* "None" or the selected font
    calls,            \* open recurs_to_target_op calls, innermost last
    ret,              \* the recurs_to_target_op call that returned in the last step
    ts_status,        \* "running" | "returned" | "PdfReadError" | "KeyError"
    bt_groups,        \* number of BTGroup dicts appended so far
    tj_ops,           \* number of TextStateParams appended so far
    n_ops,            \* operators consumed from the ops iterator
    operator,         \* the operator taken from ops in the last step
    strip_rotated,    \* argument of text_show_operations
    \* ---- filters.py
    rl,               \* RunLengthDecode.decode: data, i, decoded, status
    lzw,              \* LZWDecode.Decoder: its fields, the locals of decode(), status
    pd,               \* FlateDecode._decode_predictor: arguments, i, output, status
    sd,               \* decode_stream_data: stream, filters, decode_params, data, i, status
    hx,               \* ASCIIHexDecode.decode: data, status
    a85,              \* ASCII85Decode.decode: data, status
    \* ---- _page_labels.py
    pl,               \* the /Nums array, the calls made on it and the last result
    al,               \* to_alpha: num, result, status
    \* ---- generic/_data_structures.py
    gi,               \* DictionaryObject.get_inherited: the object graph, self, depth, status
    \* ---- _reader.py, _utils.py
    sx,               \* _find_startxref_pos: the stream, its position, line, status
    \* ---- generic/_image_inline.py
    ii,               \* extract_inline_*: the stream, its position, data, status
    \* ---- pagerange.py
    fp,               \* parse_filename_page_ranges: args, position, result, status
    pr,               \* PageRange: the argument, the range built, its str(), status
    \* ---- _reader.py
    rd,               \* PdfReader: the document, _encryption, the last call and its outcome
    \* ---- _utils.py
    pv,               \* read_previous_line: the stream, its position, the line read
    \* ---- generic/_data_structures.py
    tr                \* TreeObject: the nodes, their links, the last call and its outcome

ts_vars == <<transform_stack, q_queue, q_depth, font, calls, ret, ts_status,
             bt_groups, tj_ops, n_ops, operator, strip_rotated>>

filter_vars == <<rl, lzw, pd, sd>>

doc_vars == <<pr, rd, pv, tr>>

lib_vars == <<hx, a85, pl, al, gi, sx, ii, fp, doc_vars>>

vars == <<ts_vars, filter_vars, lib_vars>>

\* a component that is not running
Idle == [status |-> "idle"]

DocIdle == pr = Idle /\ rd = Idle /\ pv = Idle /\ tr = Idle

LibIdle ==
    /\ hx = Idle /\ a85 = Idle /\ pl = Idle /\ al = Idle
    /\ gi = Idle /\ sx = Idle /\ ii = Idle /\ fp = Idle
    /\ DocIdle

(***************************************************************************)
(* Bounds                                                                  *)
(***************************************************************************)
MaxOps == 5

None == "None"

(***************************************************************************)
(* Sequence helpers                                                        *)
(***************************************************************************)
Reverse(s) == [k \in 1..Len(s) |-> s[Len(s) + 1 - k]]

Front(s) == SubSeq(s, 1, Len(s) - 1)

Last(s) == s[Len(s)]

(***************************************************************************)
(* Transformation matrices: [a, b, c, d, e, f]                             *)
(***************************************************************************)
Identity == <<1, 0, 0, 1, 0, 0>>

\* operands offered to cm and Tm: a scaling, a translation, a rotation by 90
MatScale == <<2, 0, 0, 1, 0, 0>>

MatShift == <<1, 0, 0, 1, 1, 0>>

MatRot == <<0, 1, -1, 0, 0, 0>>

CmOperands == {MatScale, MatShift}

TmOperands == {MatShift, MatRot}

\* pypdf._text_extraction.mult: product of two affine matrices
mult(m, n) ==
    << m[1] * n[1] + m[2] * n[3],
       m[1] * n[2] + m[2] * n[4],
       m[3] * n[1] + m[4] * n[3],
       m[3] * n[2] + m[4] * n[4],
       m[5] * n[1] + m[6] * n[3] + n[5],
       m[5] * n[2] + m[6] * n[4] + n[6] >>

(***************************************************************************)
(* TextStateManager                                                        *)
(***************************************************************************)
\* new_transform: the six matrix entries plus the is_text / is_render keys
new_transform(m, is_text, is_render) ==
    [empty |-> FALSE, m |-> m, is_text |-> is_text, is_render |-> is_render]

\* the dict {} that ChainMap() supplies when it is built from no maps:
\* it has no matrix keys, and .get('is_text', False) reads False
EmptyMap ==
    [empty |-> TRUE, m |-> <<>>, is_text |-> FALSE, is_render |-> FALSE]

\* ChainMap(*maps): "self.maps = list(maps) or [{}]"
ChainMap(maps) == IF maps = <<>> THEN <<EmptyMap>> ELSE maps

\* ChainMap.new_child(m): the new map goes to the front
new_child(stack, frame) == <<frame>> \o stack

\* ChainMap.parents: ChainMap(*self.maps[1:])
parents(stack) == ChainMap(Tail(stack))

\* Counter lookup: a missing key counts 0
CounterGet(c, k) == IF k \in DOMAIN c THEN c[k] ELSE 0

CounterSet(c, k, v) ==
    [x \in (DOMAIN c) \cup {k} |-> IF x = k THEN v ELSE c[x]]

CounterDel(c, k) == [x \in (DOMAIN c) \ {k} |-> c[x]]

\* reset_tm: keep the frames that are neither is_text nor is_render
reset_tm(stack) ==
    ChainMap(SelectSeq(stack, LAMBDA t : ~(t.is_text \/ t.is_render)))

\* add_cm / add_tm: push a frame
add_cm(stack, m) == new_child(stack, new_transform(m, FALSE, FALSE))

add_tm(stack, m) == new_child(stack, new_transform(m, TRUE, FALSE))

\* add_q: q_depth.append(q_depth[-1] + 1); q_queue[q_depth[-1]] += 1
add_q_depth(qd) == Append(qd, Last(qd) + 1)

add_q_queue(qd, qq) ==
    LET k == Last(add_q_depth(qd)) IN CounterSet(qq, k, CounterGet(qq, k) + 1)

\* remove_q, the q_depth / q_queue bookkeeping
remove_q_depth(qd, qq) ==
    IF Last(qd) > 0
    THEN LET k == Last(qd) - 1
         IN  IF CounterGet(qq, k) - 1 = 0
             THEN Front(qd)
             ELSE [qd EXCEPT ![Len(qd)] = k]
    ELSE qd

remove_q_queue(qd, qq) ==
    IF Last(qd) > 0
    THEN LET k == Last(qd) - 1
         IN  IF CounterGet(qq, k) - 1 = 0
             THEN CounterDel(qq, k)
             ELSE CounterSet(qq, k, CounterGet(qq, k) - 1)
    ELSE qq

\* remove_q, the transform stack: self.transform_stack.parents
remove_q_stack(stack) == parents(stack)

\* effective_transform raises KeyError when a frame has no matrix keys
effective_transform_raises(stack) ==
    \E k \in 1..Len(stack) : stack[k].empty

\* effective_transform: result = identity; for transform in reversed(maps):
\* result = mult(result, transform)
RECURSIVE fold_transforms(_, _, _)
fold_transforms(result, rev, k) ==
    IF k > Len(rev) THEN result
    ELSE fold_transforms(mult(result, rev[k].m), rev, k + 1)

\* the maps folded newest first (reversed() left out)
effective_transform_unreversed(stack) == fold_transforms(Identity, stack, 1)

effective_transform(stack) == fold_transforms(Identity, Reverse(stack), 1)

\* the font check left out
font_not_set_unchecked(f) == FALSE

\* text_state_params: "if self.font is None: raise PdfReadError"
font_not_set(f) == f = None

(***************************************************************************)
(* text_show_operations and recurs_to_target_op                            *)
(***************************************************************************)
\* A call of recurs_to_target_op.  saved, only_cm and n_cm observe the call:
\* the transform stack when the call began, whether every operator it has
\* handled so far is a cm, and how many cm it has handled.
Call(end_target, stack) ==
    [end_target |-> end_target, saved |-> stack, only_cm |-> TRUE, n_cm |-> 0]

NoCall == [end_target |-> None, saved |-> <<>>, only_cm |-> FALSE, n_cm |-> 0]

InCall == calls # <<>>

end_target == IF InCall THEN Last(calls).end_target ELSE None

\* the innermost call has handled one more operator
Seen(cs, is_cm) ==
    IF cs = <<>> THEN cs
    ELSE [cs EXCEPT ![Len(cs)] =
            [@ EXCEPT !.only_cm = @ /\ is_cm,
                      !.n_cm = IF is_cm THEN @ + 1 ELSE @]]

\* "for operands, operator in ops": one more operator is taken from ops
Fetch(ops) ==
    /\ ts_status = "running"
    /\ n_ops < MaxOps
    /\ n_ops' = n_ops + 1
    /\ operator' \in ops
    /\ strip_rotated' = strip_rotated
    /\ UNCHANGED <<rl, lzw, pd, sd, lib_vars>>

TsInit ==
    /\ transform_stack = ChainMap(<<new_transform(Identity, FALSE, FALSE)>>)
    /\ q_queue = <<>>
    /\ q_depth = <<0>>
    /\ font = None
    /\ calls = <<>>
    /\ ret = NoCall
    /\ ts_status = "running"
    /\ bt_groups = 0
    /\ tj_ops = 0
    /\ n_ops = 0
    /\ operator = None
    /\ strip_rotated \in BOOLEAN
    /\ rl = Idle /\ lzw = Idle /\ pd = Idle /\ sd = Idle /\ LibIdle

\* recurs_to_target_op: "if operator == end_target: break"
OpEndTarget ==
    /\ InCall
    /\ Fetch({end_target})
    /\ ret' = Last(calls)
    /\ calls' = Front(calls)
    /\ UNCHANGED <<transform_stack, q_queue, q_depth, font, ts_status,
                   bt_groups, tj_ops>>

\* b'BT' in either loop: recurse to the matching ET
OpBT ==
    /\ Fetch({"BT"})
    /\ calls' = Append(Seen(calls, FALSE), Call("ET", transform_stack))
    /\ ret' = NoCall
    /\ UNCHANGED <<transform_stack, q_queue, q_depth, font, ts_status,
                   bt_groups, tj_ops>>

\* b'q' in either loop: add_q(), then recurse to the matching Q
Opq ==
    /\ Fetch({"q"})
    /\ q_depth' = add_q_depth(q_depth)
    /\ q_queue' = add_q_queue(q_depth, q_queue)
    /\ calls' = Append(Seen(calls, FALSE), Call("Q", transform_stack))
    /\ ret' = NoCall
    /\ UNCHANGED <<transform_stack, font, ts_status, bt_groups, tj_ops>>

\* b'Q' in text_show_operations' own loop: remove_q()
OpQ ==
    /\ ~InCall
    /\ Fetch({"Q"})
    /\ q_depth' = remove_q_depth(q_depth, q_queue)
    /\ q_queue' = remove_q_queue(q_depth, q_queue)
    /\ transform_stack' = remove_q_stack(transform_stack)
    /\ ret' = NoCall
    /\ UNCHANGED <<font, calls, ts_status, bt_groups, tj_ops>>

\* b'cm' in either loop: add_cm(*operands)
Opcm ==
    /\ Fetch({"cm"})
    /\ \E m \in CmOperands : transform_stack' = add_cm(transform_stack, m)
    /\ calls' = Seen(calls, TRUE)
    /\ ret' = NoCall
    /\ UNCHANGED <<q_queue, q_depth, font, ts_status, bt_groups, tj_ops>>

\* b'Tm' in recurs_to_target_op: add_tm(operands)
OpTm ==
    /\ InCall
    /\ Fetch({"Tm"})
    /\ \E m \in TmOperands : transform_stack' = add_tm(transform_stack, m)
    /\ calls' = Seen(calls, FALSE)
    /\ ret' = NoCall
    /\ UNCHANGED <<q_queue, q_depth, font, ts_status, bt_groups, tj_ops>>

\* b'Tf' in recurs_to_target_op: set_font(fonts[font_name], font_size)
OpTf ==
    /\ InCall
    /\ Fetch({"Tf"})
    /\ font' = "Font"
    /\ calls' = Seen(calls, FALSE)
    /\ ret' = NoCall
    /\ UNCHANGED <<transform_stack, q_queue, q_depth, ts_status, bt_groups, tj_ops>>

\* b'Tj' / b'TJ' in recurs_to_target_op: text_state_params() raises when no
\* font is set, and reads effective_transform; the run is appended to
\* bt_groups unless strip_rotated and it is rotated (TextStateParams.rotated
\* is computed outside this code: either outcome)
OpTj ==
    /\ InCall
    /\ Fetch({"Tj", "TJ"})
    /\ ret' = NoCall
    /\ UNCHANGED <<transform_stack, q_queue, q_depth, font>>
    /\ IF font_not_set(font)
       THEN /\ ts_status' = "PdfReadError"
            /\ UNCHANGED <<calls, bt_groups, tj_ops>>
       ELSE IF effective_transform_raises(transform_stack)
       THEN /\ ts_status' = "KeyError"
            /\ UNCHANGED <<calls, bt_groups, tj_ops>>
       ELSE /\ ts_status' = ts_status
            /\ calls' = Seen(calls, FALSE)
            /\ tj_ops' = tj_ops + 1
            /\ \E rotated \in BOOLEAN :
                  bt_groups' = IF strip_rotated /\ rotated
                               THEN bt_groups ELSE bt_groups + 1

\* an operator the current loop has no branch for: in text_show_operations
\* anything but BT, q, Q, cm (here ET, Tm, Tf, Tj); in recurs_to_target_op
\* the closing operator of the other kind (Q inside BT..ET, ET inside q..Q)
OpIgnored ==
    /\ Fetch(IF InCall THEN {"Q", "ET"} \ {end_target}
             ELSE {"ET", "Tm", "Tf", "Tj", "TJ"})
    /\ calls' = Seen(calls, FALSE)
    /\ ret' = NoCall
    /\ UNCHANGED <<transform_stack, q_queue, q_depth, font, ts_status,
                   bt_groups, tj_ops>>

\* the ops iterator is exhausted: every open loop ends and returns
OpsExhausted ==
    /\ ts_status = "running"
    /\ ts_status' = "returned"
    /\ calls' = <<>>
    /\ ret' = NoCall
    /\ UNCHANGED <<transform_stack, q_queue, q_depth, font, bt_groups, tj_ops,
                   n_ops, operator, strip_rotated>>
    /\ UNCHANGED <<rl, lzw, pd, sd, lib_vars>>

TsNext ==
    \/ OpEndTarget
    \/ OpBT
    \/ Opq
    \/ OpQ
    \/ Opcm
    \/ OpTm
    \/ OpTf
    \/ OpTj
    \/ OpIgnored
    \/ OpsExhausted

SpecText == TsInit /\ [][TsNext]_vars

(***************************************************************************)
(* Properties of the text-state engine                                     *)
(***************************************************************************)
\* the matrices of a sequence of frames, and their product taken from the
\* first to the last
RECURSIVE LeftProduct(_)
LeftProduct(ms) ==
    IF ms = <<>> THEN Identity
    ELSE mult(LeftProduct(Front(ms)), Last(ms))

Matrices(stack) == [k \in 1..Len(stack) |-> stack[k].m]

SameTransform(s, t) ==
    /\ effective_transform_raises(s) = effective_transform_raises(t)
    /\ ~effective_transform_raises(s) =>
          effective_transform(s) = effective_transform(t)

\* C1: when a block q, cm ... cm, Q has been replayed, the transform stack
\* has as many frames as it had before the q, and the same effective
\* transform.
C1_BalancedBlockRestores ==
    (ret.end_target = "Q" /\ ret.only_cm) =>
        /\ Len(transform_stack) = Len(ret.saved)
        /\ SameTransform(transform_stack, ret.saved)

\* C2: a Q that text_show_operations meets with no q open leaves every frame
\* of the transform stack in place, and no replay ends in an error from
\* effective_transform.
C2_UnmatchedQIsNoOp ==
    /\ [][OpQ => transform_stack' = transform_stack]_vars
    /\ [](ts_status # "KeyError")

\* C3: effective_transform is the product of the frames' matrices from the
\* oldest frame to the newest; after add_cm(A), add_cm(B) on a fresh manager
\* it is mult(A, B).
C3_EffectiveTransformIsLeftProduct ==
    ~effective_transform_raises(transform_stack) =>
        /\ effective_transform(transform_stack)
              = LeftProduct(Reverse(Matrices(transform_stack)))
        /\ \A A \in CmOperands, B \in CmOperands :
              (Len(transform_stack) = 3
                  /\ transform_stack[1] = new_transform(B, FALSE, FALSE)
                  /\ transform_stack[2] = new_transform(A, FALSE, FALSE)
                  /\ transform_stack[3] = new_transform(Identity, FALSE, FALSE))
              => effective_transform(transform_stack) = mult(A, B)

\* a fresh manager after add_cm(MatScale), add_cm(MatShift): the result is
\* mult(MatScale, MatShift), which differs from mult(MatShift, MatScale)
C3_Witness ==
    /\ n_ops = 2
    /\ Matrices(transform_stack) = <<MatShift, MatScale, Identity>>
    /\ effective_transform(transform_stack) = <<2, 0, 0, 1, 1, 0>>
    /\ mult(MatShift, MatScale) = <<2, 0, 0, 1, 2, 0>>

NonText(stack) == SelectSeq(stack, LAMBDA t : ~t.is_text)

IsSuffix(s, t) ==
    Len(s) <= Len(t) /\ SubSeq(t, Len(t) - Len(s) + 1, Len(t)) = s

\* C4: when a BT ... ET text object has been replayed, no frame tagged
\* is_text is left on the transform stack, and the frames that cm pushed
\* before it are still there in their order.
C4_TextFramesDiscardedAtET ==
    ret.end_target = "ET" =>
        /\ \A k \in 1..Len(transform_stack) : ~transform_stack[k].is_text
        /\ IsSuffix(NonText(ret.saved), NonText(transform_stack))

TextFrames(stack) == SelectSeq(stack, LAMBDA t : t.is_text)

\* C22: a Tm replaces the text matrix: after it the stack holds one frame
\* tagged is_text, and effective_transform is what the Tm gives on the
\* frames that are not tagged is_text.
C22_TmReplacesTextMatrix ==
    [][OpTm =>
          /\ Len(TextFrames(transform_stack')) = 1
          /\ SameTransform(transform_stack',
                           add_tm(NonText(transform_stack), transform_stack'[1].m))
      ]_vars

\* a Tj or TJ is handled by recurs_to_target_op in this step
TjStep == InCall /\ n_ops' = n_ops + 1 /\ operator' \in {"Tj", "TJ"}

\* a Tf is handled by recurs_to_target_op in this step
TfStep == InCall /\ n_ops' = n_ops + 1 /\ operator' = "Tf"

\* C5: inside a BT..ET or q..Q block, a Tj or TJ met while no font is
\* selected raises PdfReadError and appends no run; a Tf selects a font, the
\* font stays selected, and with a font selected Tj/TJ does not raise
\* PdfReadError.
C5_FontNotSet ==
    /\ [][TjStep =>
            IF font = None
            THEN ts_status' = "PdfReadError"
                 /\ bt_groups' = bt_groups /\ tj_ops' = tj_ops
            ELSE ts_status' # "PdfReadError"]_vars
    /\ [][(TfStep => font' # None) /\ (font # None => font' # None)]_vars
    /\ [](ts_status = "PdfReadError" => font = None)

\* a Tj inside a block before any Tf
C5_Witness ==
    ts_status = "PdfReadError" /\ operator \in {"Tj", "TJ"} /\ InCall

(***************************************************************************)
(* The text-state engine at rest, for the specifications of the filters    *)
(***************************************************************************)
TsIdle ==
    /\ transform_stack = <<>>
    /\ q_queue = <<>>
    /\ q_depth = <<>>
    /\ font = None
    /\ calls = <<>>
    /\ ret = NoCall
    /\ ts_status = "idle"
    /\ bt_groups = 0
    /\ tj_ops = 0
    /\ n_ops = 0
    /\ operator = None
    /\ strip_rotated = FALSE

(***************************************************************************)
(* Byte strings: sequences of 0..255, indexed from 0 as in Python          *)
(***************************************************************************)
Min(a, b) == IF a < b THEN a ELSE b

\* s[k]
At(s, k) == s[k + 1]

\* s[a:b] for 0 <= a
Slice(s, a, b) == SubSeq(s, a + 1, Min(b, Len(s)))

\* [x] * n
Repeat(x, n) == [k \in 1..n |-> x]

\* all sequences over S of length at most n
SeqsUpTo(S, n) == UNION {[1..k -> S] : k \in 0..n}

(***************************************************************************)
(* RunLengthDecode.decode                                                  *)
(***************************************************************************)
MaxRLLen == 4

\* length bytes 0, 1 (literal runs), 128 (EOD), 254, 255 (repeats), and a
\* data byte
RLBytes == {0, 1, 65, 128, 254, 255}

\* the spec's worked case
RLExample == <<2, 97, 98, 99, 255, 65, 128>>

\* a repeat run one byte short
repeat_count_short(length) == 256 - length

\* "[data[i+1]] * (257 - length)"
repeat_count(length) == 257 - length

\* one pass through "while i < len(data)"; the IndexError of data[i+1] is
\* turned into PdfStreamError
run_length_step(st) ==
    IF st.i >= Len(st.data) THEN [st EXCEPT !.status = "returned"]
    ELSE LET length == At(st.data, st.i) IN
         IF length = 128 THEN [st EXCEPT !.status = "returned"]
         ELSE IF length < 128
         THEN [st EXCEPT !.decoded = @ \o Slice(st.data, st.i + 1, st.i + length + 2),
                         !.i = @ + length + 2]
         ELSE IF st.i + 1 >= Len(st.data)
         THEN [st EXCEPT !.status = "PdfStreamError"]
         ELSE [st EXCEPT !.decoded = @ \o Repeat(At(st.data, st.i + 1),
                                                  repeat_count(length)),
                         !.i = @ + 2]

\* decoded = bytearray(); i = 0
run_length_start(data) ==
    [data |-> data, i |-> 0, decoded |-> <<>>, status |-> "running"]

RECURSIVE run_length_run(_)
run_length_run(st) ==
    IF st.status # "running" THEN st ELSE run_length_run(run_length_step(st))

\* RunLengthDecode.decode(data): the bytes, or the error raised
RunLengthDecode(data) ==
    LET st == run_length_run(run_length_start(data))
    IN  IF st.status = "returned" THEN [ok |-> TRUE, out |-> st.decoded]
        ELSE [ok |-> FALSE, out |-> st.status]

RLInit ==
    /\ rl \in {run_length_start(d) : d \in SeqsUpTo(RLBytes, MaxRLLen) \cup {RLExample}}
    /\ TsIdle /\ lzw = Idle /\ pd = Idle /\ sd = Idle /\ LibIdle

RLRunning == rl.status = "running" /\ rl.i < Len(rl.data)

RLPass ==
    /\ rl' = run_length_step(rl)
    /\ UNCHANGED <<ts_vars, lzw, pd, sd, lib_vars>>

\* length < 128: a literal run
RLLiteral == RLRunning /\ At(rl.data, rl.i) < 128 /\ RLPass

\* length > 128: a repeated byte
RLRepeat == RLRunning /\ At(rl.data, rl.i) > 128 /\ RLPass

\* length == 128: EOD
RLEod == RLRunning /\ At(rl.data, rl.i) = 128 /\ RLPass

\* i has reached len(data)
RLEnd == rl.status = "running" /\ rl.i >= Len(rl.data) /\ RLPass

RLNext == RLLiteral \/ RLRepeat \/ RLEod \/ RLEnd

SpecRL == RLInit /\ [][RLNext]_vars

(***************************************************************************)
(* Properties of RunLengthDecode                                           *)
(***************************************************************************)
\* the runs of d from position p (0-based) on are all complete
RECURSIVE RLComplete(_, _)
RLComplete(d, p) ==
    IF p >= Len(d) THEN TRUE
    ELSE LET L == At(d, p) IN
         IF L = 128 THEN TRUE
         ELSE IF L < 128 THEN p + L + 2 <= Len(d) /\ RLComplete(d, p + L + 2)
         ELSE p + 2 <= Len(d) /\ RLComplete(d, p + 2)

\* what the runs of d from position p on stand for: L in 0..127 the next
\* L+1 bytes, L in 129..255 the next byte 257-L times, 128 the end
RECURSIVE RLMeaning(_, _)
RLMeaning(d, p) ==
    IF p >= Len(d) THEN <<>>
    ELSE LET L == At(d, p) IN
         IF L = 128 THEN <<>>
         ELSE IF L <= 127
         THEN [k \in 1..(L + 1) |-> At(d, p + k)] \o RLMeaning(d, p + L + 2)
         ELSE [k \in 1..(257 - L) |-> At(d, p + 1)] \o RLMeaning(d, p + 2)

\* C7: on data made of complete runs the decoder goes through the runs from
\* left to right: what it has decoded, followed by the meaning of the runs
\* still ahead, is the meaning of the whole input, it raises nothing, and it
\* stops at the first length byte 128; [2,97,98,99,255,65,128] gives
\* "abc" + "AA".
C7_RunLengthRuns ==
    /\ RLComplete(rl.data, 0) =>
          /\ rl.status \in {"running", "returned"}
          /\ rl.status = "running" =>
                rl.decoded \o RLMeaning(rl.data, rl.i) = RLMeaning(rl.data, 0)
          /\ rl.status = "returned" => rl.decoded = RLMeaning(rl.data, 0)
    /\ (rl.data = RLExample /\ rl.status = "returned") =>
          rl.decoded = <<97, 98, 99, 65, 65>>

\* the worked case has been decoded
C7_Witness ==
    /\ rl.data = RLExample
    /\ rl.status = "returned"
    /\ rl.decoded = <<97, 98, 99, 65, 65>>
    /\ At(rl.data, rl.i) = 128

(***************************************************************************)
(* LZWDecode.Decoder                                                       *)
(***************************************************************************)
STOP == 257

CLEARDICT == 256

\* len(self.dict): "self.dict = [''] * 4096"
DictLen == 4096

Pow2(n) == 2 ^ n

\* self.dict[c] for 0 <= c < 4096: chr(c) below 256, the string written to
\* the slot, or the '' the list was filled with (slots 256 and 257 too).
\* dict holds the written slots only; reset_dict leaves them as they are.
DictGet(dict, c) ==
    IF c < 256 THEN <<c>>
    ELSE IF c \in DOMAIN dict THEN dict[c]
    ELSE <<>>

DictPut(dict, c, str) ==
    [x \in (DOMAIN dict) \cup {c} |-> IF x = c THEN str ELSE dict[x]]

\* the loop of get_next_code: take bitsfromhere bits of the current byte,
\* most significant first, until fillbits are read; no byte left raises
RECURSIVE read_bits(_, _, _, _, _)
read_bits(data, bytepos, bitpos, fillbits, value) ==
    IF fillbits <= 0
    THEN [ok |-> TRUE, value |-> value, bytepos |-> bytepos, bitpos |-> bitpos]
    ELSE IF bytepos >= Len(data)
    THEN [ok |-> FALSE, value |-> value, bytepos |-> bytepos, bitpos |-> bitpos]
    ELSE LET nextbits == At(data, bytepos)
             bitsfromhere == Min(8 - bitpos, fillbits)
             chunk == (nextbits \div Pow2(8 - bitpos - bitsfromhere))
                          % Pow2(bitsfromhere)
             newbitpos == bitpos + bitsfromhere
         IN  read_bits(data,
                       IF newbitpos >= 8 THEN bytepos + 1 ELSE bytepos,
                       IF newbitpos >= 8 THEN 0 ELSE newbitpos,
                       fillbits - bitsfromhere,
                       value + chunk * Pow2(fillbits - bitsfromhere))

\* the end of the data read as a stop code
get_next_code_lenient(st) ==
    LET r == read_bits(st.data, st.bytepos, st.bitpos, st.curr_code_size, 0)
    IN  IF r.ok THEN r ELSE [r EXCEPT !.ok = TRUE, !.value = STOP]

\* get_next_code: ok = FALSE stands for
\* PdfReadError("LZW stream is missing stop code")
get_next_code(st) ==
    read_bits(st.data, st.bytepos, st.bitpos, st.curr_code_size, 0)

\* the decoder after a get_next_code that returned r
Advance(st, r) ==
    [st EXCEPT !.bytepos = r.bytepos, !.bitpos = r.bitpos, !.cW = r.value]

\* reset_dict
reset_dict(st) == [st EXCEPT !.dict_size = 258, !.curr_code_size = 9]

\* add_code_to_dict on a table without an end: the string is entered in any
\* slot
add_code_to_dict_unbounded(st, newstring) ==
    LET size == st.dict_size + 1 IN
    [st EXCEPT !.dict = DictPut(@, st.dict_size, newstring),
               !.dict_size = size,
               !.curr_code_size = IF size = 512 THEN 10
                                  ELSE IF size = 1024 THEN 11
                                  ELSE IF size = 2048 THEN 12
                                  ELSE @]

\* add_code_to_dict: the write raises IndexError at slot 4096
add_code_to_dict(st, newstring) ==
    IF st.dict_size >= DictLen THEN [st EXCEPT !.status = "IndexError"]
    ELSE LET size == st.dict_size + 1 IN
         [st EXCEPT !.dict = DictPut(@, st.dict_size, newstring),
                    !.dict_size = size,
                    !.curr_code_size = IF size = 512 THEN 10
                                       ELSE IF size = 1024 THEN 11
                                       ELSE IF size = 2048 THEN 12
                                       ELSE @]

\* Decoder.__init__
lzw_start(data) ==
    [data |-> data, bytepos |-> 0, bitpos |-> 0, dict |-> <<>>,
     dict_size |-> 258, curr_code_size |-> 9,
     result |-> <<>>, old |-> 0, cW |-> 0, status |-> "start"]

\* decode(), up to the loop: cW = get_next_code(); result = dict[cW]; old = cW
lzw_first(st) ==
    LET r == get_next_code(st) IN
    IF ~r.ok THEN [st EXCEPT !.status = "PdfReadError"]
    ELSE [Advance(st, r) EXCEPT !.result = DictGet(st.dict, r.value),
                                !.old = r.value,
                                !.status = "loop"]

\* decode(), the branch for CLEARDICT: reset_dict(), read a code, append its
\* string
lzw_clear(st) ==
    LET st1 == reset_dict(st)
        r == get_next_code(st1)
    IN  IF ~r.ok THEN [st1 EXCEPT !.status = "PdfReadError"]
        ELSE [Advance(st1, r) EXCEPT !.result = @ \o DictGet(st1.dict, r.value),
                                     !.old = r.value]

\* decode(), the branch for any other code.  self.dict[cW] cannot raise
\* IndexError (cW < 4096), so s is self.dict[cW]; an empty s makes s[0]
\* raise IndexError after "result += s".
lzw_data(st) ==
    LET s == DictGet(st.dict, st.cW) IN
    IF s = <<>> THEN [st EXCEPT !.status = "IndexError"]
    ELSE LET st1 == add_code_to_dict([st EXCEPT !.result = @ \o s],
                                     DictGet(st.dict, st.old) \o <<s[1]>>)
         IN  IF st1.status = "IndexError" THEN st1
             ELSE [st1 EXCEPT !.old = st.cW]

\* one pass through "while True" of decode()
lzw_pass(st) ==
    LET r == get_next_code(st) IN
    IF ~r.ok THEN [st EXCEPT !.status = "PdfReadError"]
    ELSE IF r.value = STOP THEN [Advance(st, r) EXCEPT !.status = "returned"]
    ELSE IF r.value = CLEARDICT THEN lzw_clear(Advance(st, r))
    ELSE lzw_data(Advance(st, r))

lzw_step(st) == IF st.status = "start" THEN lzw_first(st) ELSE lzw_pass(st)

RECURSIVE lzw_run(_)
lzw_run(st) ==
    IF st.status \notin {"start", "loop"} THEN st ELSE lzw_run(lzw_step(st))

\* LZWDecode.decode(data): the string, or the error raised
LZWDecode(data) ==
    LET st == lzw_run(lzw_start(data))
    IN  IF st.status = "returned" THEN [ok |-> TRUE, out |-> st.result]
        ELSE [ok |-> FALSE, out |-> st.status]

(***************************************************************************)
(* Inputs of the LZW decoder: code streams packed most significant bit     *)
(* first, among them the output of a TIFF/PDF LZW encoder                  *)
(***************************************************************************)
MaxPlain == 4

MaxCodes == 3

LZWPlainBytes == {65, 66}

\* data codes, the control codes, the first free slot and an unused slot
LZWCodes == {65, CLEARDICT, STOP, 258, 300}

\* the w bits of code, most significant first
Bits(code, w) == [k \in 1..w |-> (code \div Pow2(w - k)) % 2]

RECURSIVE BitString(_, _)
BitString(codes, w) ==
    IF codes = <<>> THEN <<>>
    ELSE Bits(codes[1], w) \o BitString(Tail(codes), w)

ByteOf(bits, k) ==
    LET bit(j) == IF 8 * k + j <= Len(bits) THEN bits[8 * k + j] ELSE 0
    IN  bit(1) * 128 + bit(2) * 64 + bit(3) * 32 + bit(4) * 16
          + bit(5) * 8 + bit(6) * 4 + bit(7) * 2 + bit(8)

\* codes of w bits each packed into bytes, the last byte filled with zeros
PackCodes(codes, w) ==
    LET bits == BitString(codes, w)
    IN  [k \in 1..((Len(bits) + 7) \div 8) |-> ByteOf(bits, k - 1)]

\* the encoder's code for the string w: a byte, or the slot of its table
\* entry (the table's first entry is slot 258)
CodeOf(w, table) ==
    IF Len(w) = 1 THEN w[1]
    ELSE 257 + (CHOOSE k \in 1..Len(table) : table[k] = w)

InTable(w, table) == Len(w) = 1 \/ \E k \in 1..Len(table) : table[k] = w

\* LZW encoding of x[k..] with w pending: the longest string in the table is
\* emitted and the string one byte longer is entered
RECURSIVE EncodeFrom(_, _, _, _)
EncodeFrom(x, k, w, table) ==
    IF k > Len(x) THEN (IF w = <<>> THEN <<>> ELSE <<CodeOf(w, table)>>)
    ELSE LET wc == Append(w, x[k]) IN
         IF InTable(wc, table) THEN EncodeFrom(x, k + 1, wc, table)
         ELSE <<CodeOf(w, table)>> \o EncodeFrom(x, k + 1, <<x[k]>>, Append(table, wc))

\* the code stream of a TIFF/PDF encoder: CLEAR, the codes, STOP
LZWEncode(x) == <<CLEARDICT>> \o EncodeFrom(x, 1, <<>>, <<>>) \o <<STOP>>

LZWPlain == SeqsUpTo(LZWPlainBytes, MaxPlain)

\* short inputs keep the table below 511 entries: every code has 9 bits
LZWInputs ==
    {PackCodes(LZWEncode(x), 9) : x \in LZWPlain}
        \cup {PackCodes(cs, 9) : cs \in SeqsUpTo(LZWCodes, MaxCodes)}

LZWInit ==
    /\ lzw \in {lzw_start(d) : d \in LZWInputs}
    /\ TsIdle /\ rl = Idle /\ pd = Idle /\ sd = Idle /\ LibIdle

LZWPass ==
    /\ lzw' = lzw_step(lzw)
    /\ UNCHANGED <<ts_vars, rl, pd, sd, lib_vars>>

\* the first code
LZWFirst == lzw.status = "start" /\ LZWPass

\* the loop reads STOP
LZWStop ==
    /\ lzw.status = "loop"
    /\ get_next_code(lzw).ok /\ get_next_code(lzw).value = STOP
    /\ LZWPass

\* the loop reads CLEARDICT
LZWClear ==
    /\ lzw.status = "loop"
    /\ get_next_code(lzw).ok /\ get_next_code(lzw).value = CLEARDICT
    /\ LZWPass

\* the loop reads any other code
LZWData ==
    /\ lzw.status = "loop"
    /\ get_next_code(lzw).ok /\ get_next_code(lzw).value \notin {STOP, CLEARDICT}
    /\ LZWPass

\* the loop finds no code left
LZWMissingStop ==
    /\ lzw.status = "loop"
    /\ ~get_next_code(lzw).ok
    /\ LZWPass

LZWNext == LZWFirst \/ LZWStop \/ LZWClear \/ LZWData \/ LZWMissingStop

SpecLZW == LZWInit /\ [][LZWNext]_vars

(***************************************************************************)
(* Long inputs of the LZW decoder: streams that fill the table             *)
(***************************************************************************)
\* the bytes of a stream that holds nothing but data code 0: enough of
\* them for 254 codes of 9 bits, 512 of 10, 1024 of 11 and 2050 of 12
MaxZeros == 5410

\* bits packed into bytes, the last byte filled with zeros
PackBits(bits) == [k \in 1..((Len(bits) + 7) \div 8) |-> ByteOf(bits, k - 1)]

\* 255 codes 0 of 9 bits each: the first code and 254 codes that enter a
\* string each, which brings dict_size from 258 to 512
GrowTo512 == Repeat(0, 255 * 9)

LZWGrowInputs ==
    {Repeat(0, 2)}
        \cup {PackBits(GrowTo512 \o Bits(CLEARDICT, w) \o Bits(0, 9) \o Bits(STOP, 9)) :
                 w \in {9, 10}}
        \cup {PackBits(GrowTo512 \o Bits(STOP, w)) : w \in {9, 10}}

\* decode() at its start on the streams that bring the table to 512 entries
LZWGrowInit ==
    /\ lzw \in {lzw_start(d) : d \in LZWGrowInputs}
    /\ TsIdle /\ rl = Idle /\ pd = Idle /\ sd = Idle /\ LibIdle

SpecLZWGrow == LZWGrowInit /\ [][LZWNext]_vars

\* the passes decode() has made on the stream of zeros when the model takes
\* it up: the first code and the codes that bring dict_size to 4090
LateCodes == 3833

Max(a, b) == IF a > b THEN a ELSE b

\* the bits decode() has read after n passes on codes 0 without a CLEAR: 9
\* for each code, one more for each code read after dict_size got to 512
\* (from the 256th code on), to 1024 and to 2048
BitsRead(n) == 9 * n + Max(0, n - 255) + Max(0, n - 767) + Max(0, n - 1791)

\* the decoder after n >= 1 passes of decode() on data, a stream of zeros:
\* the first code gave result dict[0], each code after it one more byte and
\* the string dict[0] + dict[0][0] in the next slot
lzw_after(data, n) ==
    LET size == 258 + n - 1 IN
    [data |-> data,
     bytepos |-> BitsRead(n) \div 8, bitpos |-> BitsRead(n) % 8,
     dict |-> [c \in 258..(size - 1) |-> <<0, 0>>],
     dict_size |-> size,
     curr_code_size |-> IF size < 512 THEN 9 ELSE IF size < 1024 THEN 10
                        ELSE IF size < 2048 THEN 11 ELSE 12,
     result |-> Repeat(0, n), old |-> 0, cW |-> 0, status |-> "loop"]

\* decode() at its start on the short streams, and after LateCodes passes
\* on the stream of zeros
LZWLongInit ==
    /\ lzw \in {lzw_start(d) : d \in LZWGrowInputs}
                  \cup {lzw_after(Repeat(0, MaxZeros), LateCodes)}
    /\ TsIdle /\ rl = Idle /\ pd = Idle /\ sd = Idle /\ LibIdle

SpecLZWLong == LZWLongInit /\ [][LZWNext]_vars

(***************************************************************************)
(* Properties of the LZW decoder                                           *)
(***************************************************************************)
\* C8: decoding the packed code stream of the encoder for x raises nothing
\* and returns x.
C8_LZWRoundTrip ==
    \A x \in LZWPlain :
        lzw.data = PackCodes(LZWEncode(x), 9) =>
            /\ lzw.status \notin {"PdfReadError", "IndexError"}
            /\ lzw.status = "returned" => lzw.result = x

\* the bits of the input that are still unread
BitsLeft(st) == 8 * (Len(st.data) - st.bytepos) - st.bitpos

\* the next get_next_code, or the one that follows a CLEARDICT, finds fewer
\* bits than a code has
RunsOut(st) ==
    \/ BitsLeft(st) < st.curr_code_size
    \/ /\ get_next_code(st).value = CLEARDICT
       /\ st.status = "loop"
       /\ BitsLeft(st) - st.curr_code_size < 9

\* C9: when the bits run out before a STOP code is read the decoder raises
\* PdfReadError, it returns a result only after it has read STOP, and while
\* it has neither returned nor raised it can take its next step.
C9_MissingStopRaises ==
    /\ [][(lzw.status \in {"start", "loop"} /\ RunsOut(lzw))
            => lzw'.status = "PdfReadError"]_vars
    /\ [](lzw.status = "returned" => lzw.cW = STOP)
    /\ [](lzw.status \in {"start", "loop"} => ENABLED LZWNext)

\* a stream that ends without STOP after some output was decoded
C9_Witness ==
    /\ lzw.status = "PdfReadError"
    /\ lzw.result # <<>>
    /\ lzw.cW # STOP

\* the code width the claim gives for a table of size entries
WidthOf(size) ==
    IF size < 1024 THEN 9 ELSE IF size < 2048 THEN 10
    ELSE IF size < 4096 THEN 11 ELSE 12

\* C23: the decoder starts with 258 entries and 9-bit codes, reads 10-,
\* 11- and 12-bit codes once the table has 1024, 2048 and 4096 entries, and
\* is back at 258 entries and 9 bits after a CLEAR code.
C23_CodeWidthThresholds ==
    /\ [](lzw.status = "start" => lzw.dict_size = 258 /\ lzw.curr_code_size = 9)
    /\ [](lzw.status # "idle" => lzw.curr_code_size = WidthOf(lzw.dict_size))
    /\ [][LZWClear => lzw'.dict_size = 258 /\ lzw'.curr_code_size = 9]_vars

\* the table is full and one more string was to be entered
TableFull == lzw.status = "IndexError" /\ lzw.dict_size = DictLen

\* C29: the table has between 258 and 4096 entries, and every string that is
\* entered lies in a slot below 4096, also when the stream holds more data
\* codes than the table has free slots.
C29_TableNeverOverrun ==
    lzw.status # "idle" =>
        /\ lzw.dict_size \in 258..DictLen
        /\ \A c \in DOMAIN lzw.dict : c \in 258..(DictLen - 1)

C29_Witness == TableFull /\ DOMAIN lzw.dict = 258..(DictLen - 1)

(***************************************************************************)
(* FlateDecode._decode_predictor                                           *)
(***************************************************************************)
MaxPredLen == 4

\* row filter types 0 (None), 1 (Sub), 2 (Up), and a sample value
PredBytes == {0, 1, 2, 7}

\* TIFF, two unsupported values, and the first and last PNG predictor
Predictors == {2, 9, 10, 15}

PredColumns == {1, 2}

PredColors == {1, 2}

\* "(columns * colors * bits_per_component + 7) // 8" for predictor 2,
\* "columns * colors * bits_per_component // 8 + 1" for the PNG predictors
row_size(st) ==
    IF st.predictor = 2
    THEN (st.columns * st.colors * st.bits_per_component + 7) \div 8
    ELSE (st.columns * st.colors * st.bits_per_component) \div 8 + 1

IsPng(predictor) == predictor >= 10 /\ predictor <= 15

\* "for j in range(colors, len(row)): row[j] = ...": row is a slice of the
\* bytes that zlib returned, so the first assignment raises TypeError; with
\* len(row) <= colors the loop body never runs
assigns_to_row(st, row) == st.colors < Len(row)

predictor_start(data, predictor, columns, colors, bits_per_component) ==
    [data |-> data, predictor |-> predictor, columns |-> columns,
     colors |-> colors, bits_per_component |-> bits_per_component,
     i |-> 0, output |-> <<>>, status |-> "running"]

\* a row of predictor 2
tiff_row(st) ==
    LET row == Slice(st.data, st.i, st.i + row_size(st)) IN
    IF assigns_to_row(st, row) THEN [st EXCEPT !.status = "TypeError"]
    ELSE [st EXCEPT !.output = @ \o row, !.i = @ + row_size(st)]

\* a row of a PNG predictor: filter type 0 is copied, filter type 1 is
\* copied after the Sub loop, any other filter type adds nothing to output
png_row(st) ==
    LET filter_type == At(st.data, st.i)
        row == Slice(st.data, st.i + 1, st.i + row_size(st))
    IN  IF filter_type = 0
        THEN [st EXCEPT !.output = @ \o row, !.i = @ + row_size(st)]
        ELSE IF filter_type = 1
        THEN IF assigns_to_row(st, row) THEN [st EXCEPT !.status = "TypeError"]
             ELSE [st EXCEPT !.output = @ \o row, !.i = @ + row_size(st)]
        ELSE [st EXCEPT !.i = @ + row_size(st)]

\* one pass through "for i in range(0, len(data), row_size)", or the
\* "raise PdfReadError" of an unsupported predictor
predictor_step(st) ==
    IF st.predictor # 2 /\ ~IsPng(st.predictor)
    THEN [st EXCEPT !.status = "PdfReadError"]
    ELSE IF st.i >= Len(st.data) THEN [st EXCEPT !.status = "returned"]
    ELSE IF st.predictor = 2 THEN tiff_row(st)
    ELSE png_row(st)

RECURSIVE predictor_run(_)
predictor_run(st) ==
    IF st.status # "running" THEN st ELSE predictor_run(predictor_step(st))

\* _decode_predictor(...): the bytes, or the error raised
decode_predictor(data, predictor, columns, colors, bits_per_component) ==
    LET st == predictor_run(predictor_start(data, predictor, columns, colors,
                                            bits_per_component))
    IN  IF st.status = "returned" THEN [ok |-> TRUE, out |-> st.output]
        ELSE [ok |-> FALSE, out |-> st.status]

PDInit ==
    /\ pd \in {predictor_start(d, p, c, n, 8) :
                  d \in SeqsUpTo(PredBytes, MaxPredLen), p \in Predictors,
                  c \in PredColumns, n \in PredColors}
    /\ TsIdle /\ rl = Idle /\ lzw = Idle /\ sd = Idle /\ LibIdle

PDPass ==
    /\ pd.status = "running"
    /\ pd' = predictor_step(pd)
    /\ UNCHANGED <<ts_vars, rl, lzw, sd, lib_vars>>

PDSupported == pd.predictor = 2 \/ IsPng(pd.predictor)

PDInRow == PDSupported /\ pd.i < Len(pd.data)

\* the else branch: "Unsupported predictor"
PDUnsupported == PDPass /\ ~PDSupported

\* predictor 2, one row
PDTiffRow == PDPass /\ PDInRow /\ pd.predictor = 2

\* PNG, filter type 0
PDPngNone == PDPass /\ PDInRow /\ IsPng(pd.predictor) /\ At(pd.data, pd.i) = 0

\* PNG, filter type 1
PDPngSub == PDPass /\ PDInRow /\ IsPng(pd.predictor) /\ At(pd.data, pd.i) = 1

\* PNG, any other filter type: no branch
PDPngOther ==
    PDPass /\ PDInRow /\ IsPng(pd.predictor) /\ At(pd.data, pd.i) \notin {0, 1}

\* the rows are used up: "return bytes(output)"
PDReturn == PDPass /\ PDSupported /\ pd.i >= Len(pd.data)

PDNext ==
    \/ PDUnsupported
    \/ PDTiffRow
    \/ PDPngNone
    \/ PDPngSub
    \/ PDPngOther
    \/ PDReturn

SpecPredictor == PDInit /\ [][PDNext]_vars

(***************************************************************************)
(* Properties of the predictor                                             *)
(***************************************************************************)
\* the offsets at which the rows of the input begin
RowStarts(st) ==
    {k \in 0..(Len(st.data) - 1) : k % row_size(st) = 0}

\* C10: with a PNG predictor a row of a filter type other than 0 (None)
\* and 1 (Sub) makes the decoding fail: a decode that returns has met no such
\* row, and has put out one row for every row of the input (the input less
\* its filter-type bytes).
C10_PngRowsDecodedOrError ==
    (IsPng(pd.predictor) /\ pd.status = "returned") =>
        /\ \A k \in RowStarts(pd) : At(pd.data, k) \in {0, 1}
        /\ Len(pd.output) = Len(pd.data) - Cardinality(RowStarts(pd))

(***************************************************************************)
(* FlateDecode.decode                                                      *)
(***************************************************************************)
\* a dictionary object is a set of <<key, value>> pairs
dict_get(d, key, default) ==
    IF \E kv \in d : kv[1] = key
    THEN (CHOOSE kv \in d : kv[1] = key)[2]
    ELSE default

\* an argument that may be None
Some(x) == [present |-> TRUE, v |-> x]

Nothing == [present |-> FALSE, v |-> {}]

\* the first byte of a zlib stream (CMF, deflate with a 32K window)
ZlibHeader == 120

\* decompress(): zlib is outside this code and stands here as a framing of
\* the payload: the header byte, then the payload as it is.  Anything else
\* is a zlib.error in zlib.decompress and again in the decompressobj retry.
decompress(data) ==
    IF data # <<>> /\ data[1] = ZlibHeader
    THEN [ok |-> TRUE, out |-> Tail(data)]
    ELSE [ok |-> FALSE, out |-> "zlib.error"]

\* FlateDecode.decode(data, decode_parms): zlib.error becomes PdfReadError;
\* a non-empty decode_parms with /Predictor other than 1 runs
\* _decode_predictor
FlateDecode(data, decode_parms) ==
    LET z == decompress(data) IN
    IF ~z.ok THEN [ok |-> FALSE, out |-> "PdfReadError"]
    ELSE IF decode_parms.present /\ decode_parms.v # {}
               /\ dict_get(decode_parms.v, "/Predictor", 1) # 1
    THEN decode_predictor(z.out,
                          dict_get(decode_parms.v, "/Predictor", 1),
                          dict_get(decode_parms.v, "/Columns", 1),
                          dict_get(decode_parms.v, "/Colors", 1),
                          dict_get(decode_parms.v, "/BitsPerComponent", 8))
    ELSE z

(***************************************************************************)
(* decode_stream_data                                                      *)
(***************************************************************************)
MaxFilters == 2

\* the filter names offered: the two Flate names, RunLength, LZW, an image
\* filter and a name decode_stream_data has no branch for
FilterNames ==
    {"/FlateDecode", "/Fl", "/RunLengthDecode", "/LZWDecode", "/DCTDecode", "/Foo"}

ImageFilters == {"/DCTDecode", "/JPXDecode", "/CCITTFaxDecode"}

\* /DecodeParms dictionaries: an empty one, and a PNG predictor on rows of
\* two columns
ParmDicts == {{}, {<<"/Predictor", 12>>, <<"/Columns", 2>>}}

\* the stream's /Filter entry: absent, a null object, a name, or an array
FilterEntries ==
    {[kind |-> "absent", v |-> <<>>], [kind |-> "null", v |-> <<>>]}
        \cup {[kind |-> "name", v |-> <<f>>] : f \in FilterNames}
        \cup {[kind |-> "array", v |-> fs] : fs \in SeqsUpTo(FilterNames, MaxFilters)}

\* the stream's /DecodeParms entry: absent, a null object, a dictionary, or
\* an array of dictionaries
ParmEntries ==
    {[kind |-> "absent", v |-> <<>>], [kind |-> "null", v |-> <<>>]}
        \cup {[kind |-> "dict", v |-> <<d>>] : d \in ParmDicts}
        \cup {[kind |-> "array", v |-> ds] : ds \in SeqsUpTo(ParmDicts, MaxFilters)}

\* stream._data: run-length data for "A", for that data again, and for a
\* zlib stream; a zlib stream of run-length data and of a PNG row; LZW codes
\* for that run-length data; nothing
RawData ==
    { <<0, 65, 128>>,
      <<2, 0, 65, 128, 128>>,
      <<1, ZlibHeader, 65, 128>>,
      <<ZlibHeader, 0, 65, 128>>,
      PackCodes(<<CLEARDICT, 0, 65, 128, STOP>>, 9),
      <<>> }

\* lines 383-395: "/Filter" defaults to the tuple (), which no branch accepts
normalize_filters(entry) ==
    IF entry.kind = "absent" THEN [ok |-> FALSE, v |-> <<>>]
    ELSE [ok |-> TRUE, v |-> entry.v]

\* lines 397-407: "/DecodeParms" defaults to a plain dict {}, which is no
\* DictionaryObject and which no branch accepts; a null object gives {}
\* (length 0), a dictionary the one-element list
normalize_params(entry) ==
    IF entry.kind = "absent" THEN [ok |-> FALSE, v |-> <<>>]
    ELSE [ok |-> TRUE, v |-> entry.v]

stream_start(filter_entry, parms_entry, raw) ==
    [filter_entry |-> filter_entry, parms_entry |-> parms_entry, raw |-> raw,
     filters |-> <<>>, decode_params |-> <<>>,
     data |-> raw, is_str |-> FALSE, i |-> 0, status |-> "start"]

\* the two normalisations, in their order
stream_normalize(st) ==
    LET fs == normalize_filters(st.filter_entry)
        ps == normalize_params(st.parms_entry)
    IN  IF ~fs.ok \/ ~ps.ok THEN [st EXCEPT !.status = "PdfReadError"]
        ELSE [st EXCEPT !.filters = fs.v, !.decode_params = ps.v,
                        !.status = "loop"]

\* "decode_params[i] if i < len(decode_params) else None"
param_for(st) ==
    IF st.i < Len(st.decode_params) THEN Some(At(st.decode_params, st.i))
    ELSE Nothing

\* the filter's result goes to data, or its error ends the call
Assign(st, r, is_str) ==
    IF r.ok THEN [st EXCEPT !.data = r.out, !.is_str = is_str, !.i = @ + 1]
    ELSE [st EXCEPT !.status = r.out]

TypeError == [ok |-> FALSE, out |-> "TypeError"]

\* one pass through "for i, filter_type in enumerate(filters)".  LZWDecode
\* returns a str: zlib.decompress rejects a str with TypeError, and so does
\* "length < 128" in RunLengthDecode unless the str is empty.
stream_pass(st) ==
    IF st.i >= Len(st.filters) THEN [st EXCEPT !.status = "returned"]
    ELSE LET filter_type == At(st.filters, st.i) IN
         IF filter_type \in {"/FlateDecode", "/Fl"}
         THEN Assign(st, IF st.is_str THEN TypeError
                         ELSE FlateDecode(st.data, param_for(st)), FALSE)
         ELSE IF filter_type = "/RunLengthDecode"
         THEN Assign(st, IF st.is_str /\ st.data # <<>> THEN TypeError
                         ELSE RunLengthDecode(st.data), FALSE)
         ELSE IF filter_type = "/LZWDecode"
         THEN Assign(st, LZWDecode(st.data), TRUE)
         ELSE IF filter_type \in ImageFilters
         THEN [st EXCEPT !.status = "returned"]
         ELSE [st EXCEPT !.status = "NotImplementedError"]

stream_step(st) ==
    IF st.status = "start" THEN stream_normalize(st) ELSE stream_pass(st)

SDInit ==
    /\ sd \in {stream_start(f, p, raw) :
                  f \in FilterEntries, p \in ParmEntries, raw \in RawData}
    /\ TsIdle /\ rl = Idle /\ lzw = Idle /\ pd = Idle /\ LibIdle

SDPass ==
    /\ sd' = stream_step(sd)
    /\ UNCHANGED <<ts_vars, rl, lzw, pd, lib_vars>>

SDInLoop == sd.status = "loop" /\ sd.i < Len(sd.filters)

\* lines 383-407
SDNormalize == sd.status = "start" /\ SDPass

\* /FlateDecode, /Fl
SDFlate == SDInLoop /\ At(sd.filters, sd.i) \in {"/FlateDecode", "/Fl"} /\ SDPass

\* /RunLengthDecode
SDRunLength == SDInLoop /\ At(sd.filters, sd.i) = "/RunLengthDecode" /\ SDPass

\* /LZWDecode
SDLZW == SDInLoop /\ At(sd.filters, sd.i) = "/LZWDecode" /\ SDPass

\* /DCTDecode, /JPXDecode, /CCITTFaxDecode: "return data"
SDImage == SDInLoop /\ At(sd.filters, sd.i) \in ImageFilters /\ SDPass

\* any other name: NotImplementedError
SDUnsupported ==
    /\ SDInLoop
    /\ At(sd.filters, sd.i) \notin
          {"/FlateDecode", "/Fl", "/RunLengthDecode", "/LZWDecode"} \cup ImageFilters
    /\ SDPass

\* the filters are used up: "return data"
SDReturn == sd.status = "loop" /\ sd.i >= Len(sd.filters) /\ SDPass

SDNext ==
    \/ SDNormalize
    \/ SDFlate
    \/ SDRunLength
    \/ SDLZW
    \/ SDImage
    \/ SDUnsupported
    \/ SDReturn

SpecStream == SDInit /\ [][SDNext]_vars

(***************************************************************************)
(* Properties of decode_stream_data                                        *)
(***************************************************************************)
\* what one filter makes of data with the parameters it is given; an image
\* filter hands the payload on as it is
FilterResult(name, data, parms) ==
    IF name \in {"/FlateDecode", "/Fl"} THEN FlateDecode(data, parms)
    ELSE IF name = "/RunLengthDecode" THEN RunLengthDecode(data)
    ELSE IF name = "/LZWDecode" THEN LZWDecode(data)
    ELSE IF name \in ImageFilters THEN [ok |-> TRUE, out |-> data]
    ELSE [ok |-> FALSE, out |-> "NotImplementedError"]

\* filters k.. applied in their order, the k-th with the k-th parameters
RECURSIVE Chain(_, _, _, _)
Chain(filters, params, k, data) ==
    IF k > Len(filters) THEN [ok |-> TRUE, out |-> data]
    ELSE LET r == FilterResult(filters[k], data,
                               IF k <= Len(params) THEN Some(params[k]) ELSE Nothing)
         IN  IF r.ok THEN Chain(filters, params, k + 1, r.out) ELSE r

SDEnded == sd.status \notin {"idle", "start", "loop"}

\* C6: for a stream that carries a /Filter and a /DecodeParms entry the call
\* ends with the filters applied from left to right, each to the output of
\* the one before and with the /DecodeParms entry of its own position, or
\* with none where there is none: it returns fn(...f2(f1(raw))) where that
\* is defined, and raises where a filter raises.
C6_FiltersLeftToRight ==
    (SDEnded /\ sd.filter_entry.kind # "absent" /\ sd.parms_entry.kind # "absent") =>
        LET want == Chain(sd.filter_entry.v, sd.parms_entry.v, 1, sd.raw)
        IN  IF want.ok
            THEN sd.status = "returned" /\ sd.data = want.out
            ELSE sd.status # "returned"

\* the call ended in the PdfReadError of lines 395 and 407, before any filter
NormalizeFailed(st) ==
    st.status = "PdfReadError" /\ st.i = 0 /\ st.filters = <<>>

\* C27: a stream without /Filter is returned as it is, and a stream with
\* /Filter and without /DecodeParms has its filters applied; neither absence
\* ends the call in an error.
C27_AbsentEntriesAreNoError ==
    sd.status \notin {"idle", "start"} =>
        /\ (sd.filter_entry.kind = "absent" \/ sd.parms_entry.kind = "absent")
              => ~NormalizeFailed(sd)
        /\ sd.filter_entry.kind = "absent"
              => sd.status = "returned" /\ sd.data = sd.raw

(***************************************************************************)
(* Tuples of the variables a component leaves alone                        *)
(***************************************************************************)
hx_others == <<ts_vars, filter_vars, a85, pl, al, gi, sx, ii, fp, doc_vars>>

a85_others == <<ts_vars, filter_vars, hx, pl, al, gi, sx, ii, fp, doc_vars>>

pl_others == <<ts_vars, filter_vars, hx, a85, al, gi, sx, ii, fp, doc_vars>>

al_others == <<ts_vars, filter_vars, hx, a85, pl, gi, sx, ii, fp, doc_vars>>

gi_others == <<ts_vars, filter_vars, hx, a85, pl, al, sx, ii, fp, doc_vars>>

sx_others == <<ts_vars, filter_vars, hx, a85, pl, al, gi, ii, fp, doc_vars>>

ii_others == <<ts_vars, filter_vars, hx, a85, pl, al, gi, sx, fp, doc_vars>>

fp_others == <<ts_vars, filter_vars, hx, a85, pl, al, gi, sx, ii, doc_vars>>

FiltersIdle == rl = Idle /\ lzw = Idle /\ pd = Idle /\ sd = Idle

(***************************************************************************)
(* ASCIIHexDecode.decode                                                   *)
(***************************************************************************)
MaxHexLen == 4

\* bytes by their ASCII codes
SP == 32

LF == 10

CR == 13

TAB == 9

NUL == 0

GT == 62

\* _utils.WHITESPACES: b' ', b'\n', b'\r', b'\t', b'\x00'
WHITESPACES == {SP, LF, CR, TAB, NUL}

\* the bytes offered: the digits 4, 1, 0, the letter G, '>' and whitespace
HexBytes == {52, 49, 48, 71, GT, SP, LF, TAB, NUL}

IsHexDigit(b) == b \in (48..57) \cup (65..70) \cup (97..102)

HexVal(b) ==
    IF b \in 48..57 THEN b - 48
    ELSE IF b \in 65..70 THEN b - 55
    ELSE b - 87

\* bytes.replace(old, b'') for a one-byte old
RECURSIVE replace(_, _)
replace(data, old) ==
    IF data = <<>> THEN <<>>
    ELSE IF Head(data) = old THEN replace(Tail(data), old)
    ELSE <<Head(data)>> \o replace(Tail(data), old)

\* bytes.rstrip(chars)
RECURSIVE rstrip(_, _)
rstrip(data, chars) ==
    IF data # <<>> /\ Last(data) \in chars THEN rstrip(Front(data), chars)
    ELSE data

\* what bytes.fromhex skips between bytes: the ASCII whitespace
PySpace == {SP, TAB, LF, 11, 12, CR}

\* bytes.fromhex: whitespace is skipped before a byte; the two digits of a
\* byte stand next to each other; anything else is a ValueError
RECURSIVE fromhex(_)
fromhex(s) ==
    IF s = <<>> THEN [ok |-> TRUE, out |-> <<>>]
    ELSE IF Head(s) \in PySpace THEN fromhex(Tail(s))
    ELSE IF Len(s) < 2 \/ ~IsHexDigit(s[1]) \/ ~IsHexDigit(s[2])
    THEN [ok |-> FALSE, out |-> "ValueError"]
    ELSE LET rest == fromhex(Tail(Tail(s))) IN
         IF rest.ok
         THEN [ok |-> TRUE, out |-> <<16 * HexVal(s[1]) + HexVal(s[2])>> \o rest.out]
         ELSE rest

\* lines 151-160: spaces, LF and CR are replaced away, '>' is stripped from
\* the right, an odd length gets a '0', and the ValueError of decode('ascii')
\* or of fromhex becomes PdfStreamError
ASCIIHexDecode(data) ==
    LET stripped == rstrip(replace(replace(replace(data, SP), LF), CR), {GT})
        padded   == IF Len(stripped) % 2 # 0 THEN Append(stripped, 48) ELSE stripped
        r        == IF \E k \in 1..Len(padded) : padded[k] > 127
                    THEN [ok |-> FALSE, out |-> "ValueError"]
                    ELSE fromhex(padded)
    IN  IF r.ok THEN r ELSE [ok |-> FALSE, out |-> "PdfStreamError"]

HxInit ==
    /\ hx \in {[data |-> d, out |-> <<>>, status |-> "start"] :
                  d \in SeqsUpTo(HexBytes, MaxHexLen)}
    /\ TsIdle /\ FiltersIdle
    /\ a85 = Idle /\ pl = Idle /\ al = Idle /\ gi = Idle /\ sx = Idle
    /\ ii = Idle /\ fp = Idle /\ DocIdle

\* the call returns the decoded bytes
HxReturn ==
    /\ hx.status = "start"
    /\ ASCIIHexDecode(hx.data).ok
    /\ hx' = [hx EXCEPT !.out = ASCIIHexDecode(hx.data).out, !.status = "returned"]
    /\ UNCHANGED hx_others

\* the call raises PdfStreamError
HxRaise ==
    /\ hx.status = "start"
    /\ ~ASCIIHexDecode(hx.data).ok
    /\ hx' = [hx EXCEPT !.status = ASCIIHexDecode(hx.data).out]
    /\ UNCHANGED hx_others

HxNext == HxReturn \/ HxRaise

SpecHex == HxInit /\ [][HxNext]_vars

(***************************************************************************)
(* Properties of ASCIIHexDecode                                            *)
(***************************************************************************)
\* the digits of data with every other byte taken out
RECURSIVE HexDigitsOf(_)
HexDigitsOf(data) ==
    IF data = <<>> THEN <<>>
    ELSE IF IsHexDigit(Head(data)) THEN <<Head(data)>> \o HexDigitsOf(Tail(data))
    ELSE HexDigitsOf(Tail(data))

\* digits paired in order, a last single digit d giving d0
RECURSIVE HexPairs(_)
HexPairs(ds) ==
    IF ds = <<>> THEN <<>>
    ELSE IF Len(ds) = 1 THEN <<16 * HexVal(ds[1])>>
    ELSE <<16 * HexVal(ds[1]) + HexVal(ds[2])>> \o HexPairs(Tail(Tail(ds)))

\* hex digits with whitespace anywhere, and '>' only after the last digit
HexEncoded(data) ==
    /\ \A k \in 1..Len(data) : IsHexDigit(data[k]) \/ data[k] \in WHITESPACES \cup {GT}
    /\ \A k \in 1..Len(data) : data[k] = GT =>
          \A j \in k..Len(data) : ~IsHexDigit(data[j])

\* C11: on hex digits with whitespace (space, tab, LF, CR, NUL) anywhere
\* among them and '>' at the end, the call returns the digits paired in
\* order, a final single digit d giving the byte d0.
C11_HexDecodeIgnoresWhitespace ==
    (hx.status # "idle" /\ hx.status # "start" /\ HexEncoded(hx.data)) =>
        /\ hx.status = "returned"
        /\ hx.out = HexPairs(HexDigitsOf(hx.data))

(***************************************************************************)
(* ASCII85Decode.decode                                                    *)
(***************************************************************************)
MaxA85Len == 5

TILDE == 126

LT == 60

\* the payload bytes offered: the digits '5', 's', 'b', the letter 'z' and
\* a space
A85Bytes == {53, 115, 98, 122, SP}

A85START == <<LT, TILDE>>

A85END == <<TILDE, GT>>

startswith(data, prefix) ==
    Len(data) >= Len(prefix) /\ SubSeq(data, 1, Len(prefix)) = prefix

endswith(data, suffix) ==
    Len(data) >= Len(suffix)
        /\ SubSeq(data, Len(data) - Len(suffix) + 1, Len(data)) = suffix

\* what base64.a85decode skips: b' \t\n\r\v'
A85Ignore == {SP, TAB, LF, CR, 11}

\* "acc = 85 * acc + (x - 33)" over the five digits of curr, and the four
\* bytes packI(acc) gives; over tells that acc does not fit four bytes.
\* The sum is taken in two halves of 16 bits to stay within 32 bits.
group_bytes(curr) ==
    LET hi  == 7225 * (curr[1] - 33) + 85 * (curr[2] - 33) + (curr[3] - 33)
        lo  == 85 * (curr[4] - 33) + (curr[5] - 33)
        low == 7225 * (hi % 65536) + lo
        top == 7225 * (hi \div 65536) + low \div 65536
    IN  [b |-> <<top \div 256, top % 256, (low % 65536) \div 256, low % 256>>,
         over |-> top >= 65536]

\* the loop of base64.a85decode over b + b'u' * 4, then the cut of the
\* padding; struct.error becomes ValueError
RECURSIVE a85_scan(_, _, _)
a85_scan(b, curr, decoded) ==
    IF b = <<>>
    THEN [ok |-> TRUE, out |-> Slice(decoded, 0, Len(decoded) - (4 - Len(curr)))]
    ELSE LET x == Head(b) IN
         IF 33 <= x /\ x <= 117
         THEN IF Len(curr) = 4
              THEN LET acc == group_bytes(Append(curr, x))
                   IN  IF acc.over THEN [ok |-> FALSE, out |-> "ValueError"]
                       ELSE a85_scan(Tail(b), <<>>, decoded \o acc.b)
              ELSE a85_scan(Tail(b), Append(curr, x), decoded)
         ELSE IF x = 122
         THEN IF curr # <<>> THEN [ok |-> FALSE, out |-> "ValueError"]
              ELSE a85_scan(Tail(b), curr, decoded \o <<0, 0, 0, 0>>)
         ELSE IF x \in A85Ignore THEN a85_scan(Tail(b), curr, decoded)
         ELSE [ok |-> FALSE, out |-> "ValueError"]

a85decode(b) == a85_scan(b \o <<117, 117, 117, 117>>, <<>>, <<>>)

\* the test of line 332: the delimiters are cut only where both are there
has_delimiters(data) == startswith(data, A85START) /\ endswith(data, A85END)

\* lines 331-335
ASCII85Decode(data) ==
    LET stripped == replace(replace(replace(data, SP), LF), CR)
    IN  a85decode(IF has_delimiters(stripped)
                  THEN Slice(stripped, 2, Len(stripped) - 2)
                  ELSE stripped)

\* the input is a payload, with or without "<~" before it and "~>" after it
A85Init ==
    /\ a85 \in {[payload |-> p, data |-> lead \o p \o trail, out |-> <<>>,
                 status |-> "start"] :
                   p \in SeqsUpTo(A85Bytes, MaxA85Len),
                   lead \in {<<>>, A85START}, trail \in {<<>>, A85END}}
    /\ TsIdle /\ FiltersIdle
    /\ hx = Idle /\ pl = Idle /\ al = Idle /\ gi = Idle /\ sx = Idle
    /\ ii = Idle /\ fp = Idle /\ DocIdle

\* the call returns the decoded bytes
A85Return ==
    /\ a85.status = "start"
    /\ ASCII85Decode(a85.data).ok
    /\ a85' = [a85 EXCEPT !.out = ASCII85Decode(a85.data).out, !.status = "returned"]
    /\ UNCHANGED a85_others

\* the ValueError of a85decode leaves the call
A85Raise ==
    /\ a85.status = "start"
    /\ ~ASCII85Decode(a85.data).ok
    /\ a85' = [a85 EXCEPT !.status = ASCII85Decode(a85.data).out]
    /\ UNCHANGED a85_others

A85Next == A85Return \/ A85Raise

SpecA85 == A85Init /\ [][A85Next]_vars

(***************************************************************************)
(* Properties of ASCII85Decode                                             *)
(***************************************************************************)
\* C12: "<~" at the start and "~>" at the end are each stripped whether or
\* not the other is there: the call on a payload with either delimiter, or
\* both, ends as the call on the payload alone does, with the same bytes.
C12_DelimitersStripped ==
    (a85.status # "idle" /\ a85.status # "start") =>
        LET bare == ASCII85Decode(a85.payload)
        IN  IF bare.ok
            THEN a85.status = "returned" /\ a85.out = bare.out
            ELSE a85.status = bare.out

(***************************************************************************)
(* _page_labels.to_alpha, to_roman and str                                 *)
(***************************************************************************)
\* strings are sequences of one-character strings
MaxAlpha == 800

Letters ==
    <<"A", "B", "C", "D", "E", "F", "G", "H", "I", "J", "K", "L", "M",
      "N", "O", "P", "Q", "R", "S", "T", "U", "V", "W", "X", "Y", "Z">>

LowerLetters ==
    <<"a", "b", "c", "d", "e", "f", "g", "h", "i", "j", "k", "l", "m",
      "n", "o", "p", "q", "r", "s", "t", "u", "v", "w", "x", "y", "z">>

Digits == <<"0", "1", "2", "3", "4", "5", "6", "7", "8", "9">>

\* a reduction that takes num, not num - 1, apart
alpha_divmod_plain(num) == [q |-> num \div 26, r |-> num % 26]

\* "divmod(num - 1, 26)"
alpha_divmod(num) == [q |-> (num - 1) \div 26, r |-> (num - 1) % 26]

\* one pass through "while num > 0"
to_alpha_step(st) ==
    IF st.num > 0
    THEN LET d == alpha_divmod(st.num) IN
         [st EXCEPT !.num = d.q, !.result = <<Letters[d.r + 1]>> \o @]
    ELSE [st EXCEPT !.status = "returned"]

to_alpha_start(num) == [arg |-> num, num |-> num, result |-> <<>>, status |-> "loop"]

RECURSIVE to_alpha_run(_)
to_alpha_run(st) == IF st.status = "loop" THEN to_alpha_run(to_alpha_step(st)) ELSE st

to_alpha(num) == to_alpha_run(to_alpha_start(num)).result

roman_symbols ==
    << <<<<"M">>, 1000>>, <<<<"C", "M">>, 900>>, <<<<"D">>, 500>>,
       <<<<"C", "D">>, 400>>, <<<<"C">>, 100>>, <<<<"X", "C">>, 90>>,
       <<<<"L">>, 50>>, <<<<"X", "L">>, 40>>, <<<<"X">>, 10>>,
       <<<<"I", "X">>, 9>>, <<<<"V">>, 5>>, <<<<"I", "V">>, 4>>, <<<<"I">>, 1>> >>

\* the symbols from the k-th on, each as long as it fits
RECURSIVE to_roman_from(_, _)
to_roman_from(num, k) ==
    IF k > Len(roman_symbols) THEN <<>>
    ELSE IF num >= roman_symbols[k][2]
    THEN roman_symbols[k][1] \o to_roman_from(num - roman_symbols[k][2], k)
    ELSE to_roman_from(num, k + 1)

to_roman(num) == to_roman_from(num, 1)

\* str.lower and str.upper on the letters
lower(s) ==
    [k \in 1..Len(s) |->
        IF \E j \in 1..26 : Letters[j] = s[k]
        THEN LowerLetters[CHOOSE j \in 1..26 : Letters[j] = s[k]]
        ELSE s[k]]

upper(s) ==
    [k \in 1..Len(s) |->
        IF \E j \in 1..26 : LowerLetters[j] = s[k]
        THEN Letters[CHOOSE j \in 1..26 : LowerLetters[j] = s[k]]
        ELSE s[k]]

\* str(n) for n >= 0
RECURSIVE str(_)
str(n) ==
    IF n < 10 THEN <<Digits[n + 1]>>
    ELSE str(n \div 10) \o <<Digits[(n % 10) + 1]>>

AlInit ==
    /\ al \in {to_alpha_start(n) : n \in 0..MaxAlpha}
    /\ TsIdle /\ FiltersIdle
    /\ hx = Idle /\ a85 = Idle /\ pl = Idle /\ gi = Idle /\ sx = Idle
    /\ ii = Idle /\ fp = Idle /\ DocIdle

\* the body of the loop: one letter is put in front
AlLetter ==
    /\ al.status = "loop" /\ al.num > 0
    /\ al' = to_alpha_step(al)
    /\ UNCHANGED al_others

\* num is 0: "return result"
AlReturn ==
    /\ al.status = "loop" /\ al.num = 0
    /\ al' = to_alpha_step(al)
    /\ UNCHANGED al_others

AlNext == AlLetter \/ AlReturn

SpecAlpha == AlInit /\ [][AlNext]_vars

(***************************************************************************)
(* Properties of to_alpha                                                  *)
(***************************************************************************)
LetterValue(c) == CHOOSE j \in 1..26 : Letters[j] = c

\* the value of a label, its last letter counting once
RECURSIVE AlphaValue(_)
AlphaValue(s) ==
    IF s = <<>> THEN 0 ELSE 26 * AlphaValue(Front(s)) + LetterValue(Last(s))

AlphaExamples ==
    /\ al.arg = 1 => al.result = <<"A">>
    /\ al.arg = 26 => al.result = <<"Z">>
    /\ al.arg = 27 => al.result = <<"A", "A">>
    /\ al.arg = 52 => al.result = <<"A", "Z">>
    /\ al.arg = 53 => al.result = <<"B", "A">>

MaxNums == 2

\* the greatest page index
MaxPage == 5

\* the elements of a /Nums array: numbers and dictionaries
Num(n) == [t |-> "num", n |-> n, d |-> {}]

Obj(d) == [t |-> "dict", n |-> 0, d |-> d]

\* the page label dictionaries offered
LabelDicts ==
    { {<<"/S", "/r">>},
      {<<"/S", "/D">>},
      {<<"/S", "/D">>, <<"/P", <<"A", "-">>>>, <<"/St", 8>>},
      {<<"/S", "/A">>, <<"/St", 26>>},
      {<<"/S", "/a">>, <<"/P", <<"A", "-">>>>} }

\* list.insert(i, x) for 0 <= i <= len
insert(s, i, x) == SubSeq(s, 1, i) \o <<x>> \o SubSeq(s, i + 1, Len(s))

\* the even indices i of nums with nums[i] > key
KeysAbove(nums, key) ==
    {i \in 0..(Len(nums) - 1) : i % 2 = 0 /\ At(nums, i).n > key}

SetMin(S) == CHOOSE x \in S : \A y \in S : x <= y

\* nums.extend([key, value]) whatever the keys are
nums_append(key, value, nums) == nums \o <<Num(key), Obj(value)>>

\* lines 141-146: before the first key greater than key, or at the end
nums_insert(key, value, nums) ==
    IF KeysAbove(nums, key) # {}
    THEN LET i == SetMin(KeysAbove(nums, key))
         IN  insert(insert(nums, i, Obj(value)), i, Num(key))
    ELSE nums \o <<Num(key), Obj(value)>>

\* "nums.index(key) if key in nums else -2"
nums_index(key, nums) ==
    IF \E k \in 0..(Len(nums) - 1) : At(nums, k) = Num(key)
    THEN SetMin({k \in 0..(Len(nums) - 1) : At(nums, k) = Num(key)})
    ELSE -2

\* lines 161-164: i when the loop is left
RECURSIVE clear_range_scan(_, _, _)
clear_range_scan(i, page_index_to, nums) ==
    IF i < Len(nums) /\ ~(At(nums, i).n >= page_index_to)
    THEN clear_range_scan(i + 2, page_index_to, nums)
    ELSE i

\* lines 159-165
nums_clear_range(key, page_index_to, nums) ==
    LET start_index == nums_index(key, nums)
        i == clear_range_scan(start_index + 2, page_index_to, nums)
    IN  SubSeq(nums, 1, start_index + 2) \o SubSeq(nums, i + 1, Len(nums))

\* lines 83-87: start_index and label_dict when the loop is left
RECURSIVE label_scan(_, _, _, _)
label_scan(nums, index, i, found) ==
    IF i >= Len(nums) \/ At(nums, i).n > index THEN found
    ELSE label_scan(nums, index, i + 2,
                    [some |-> TRUE, start_index |-> At(nums, i).n,
                     label_dict |-> At(nums, i + 1).d])

\* a numbering that counts every range from 1
page_index_from_one(index, start_index, start) == index - start_index + 1

\* "page_index = index - start_index + start"
page_index(index, start_index, start) == index - start_index + start

\* lines 76-109
index2label(labelled, nums, index) ==
    IF ~labelled THEN str(index + 1)
    ELSE LET found == label_scan(nums, index, 0,
                                 [some |-> FALSE, start_index |-> 0, label_dict |-> {}])
         IN  IF ~found.some THEN str(index + 1)
             ELSE LET style  == dict_get(found.label_dict, "/S", "D")
                      prefix == dict_get(found.label_dict, "/P", <<>>)
                      start  == dict_get(found.label_dict, "/St", 1)
                      n      == page_index(index, found.start_index, start)
                  IN  IF style = "/D" THEN prefix \o str(n)
                      ELSE IF style = "/R" THEN prefix \o upper(to_roman(n))
                      ELSE IF style = "/r" THEN prefix \o lower(to_roman(n))
                      ELSE IF style = "/A" THEN prefix \o upper(to_alpha(n))
                      ELSE IF style = "/a" THEN prefix \o lower(to_alpha(n))
                      ELSE str(index + 1)

\* the array starts empty and is built by nums_insert; nums_clear_range or
\* index2label is then called on it once.  hist holds the pairs put in as
\* long as every nums_insert came with a fresh key.
PlInit ==
    /\ pl = [nums |-> <<>>, op |-> "init", key |-> 0, arg |-> 0, labelled |-> FALSE,
             before |-> <<>>, label |-> <<>>, hist |-> {}, valid |-> TRUE,
             status |-> "ready"]
    /\ TsIdle /\ FiltersIdle
    /\ hx = Idle /\ a85 = Idle /\ al = Idle /\ gi = Idle /\ sx = Idle
    /\ ii = Idle /\ fp = Idle /\ DocIdle

NumsInsert ==
    /\ pl.status = "ready"
    /\ Len(pl.nums) < 2 * MaxNums
    /\ \E key \in 0..MaxPage, value \in LabelDicts :
          LET fresh == pl.valid /\ ~\E kv \in pl.hist : kv[1] = key IN
          pl' = [pl EXCEPT !.nums = nums_insert(key, value, pl.nums),
                           !.op = "nums_insert", !.key = key, !.arg = 0,
                           !.labelled = FALSE, !.before = pl.nums, !.label = <<>>,
                           !.valid = fresh,
                           !.hist = IF fresh THEN pl.hist \cup {<<key, value>>} ELSE {}]
    /\ UNCHANGED pl_others

NumsClearRange ==
    /\ pl.status = "ready"
    /\ \E key \in 0..MaxPage, page_index_to \in 0..MaxPage :
          pl' = [pl EXCEPT !.nums = nums_clear_range(key, page_index_to, pl.nums),
                           !.op = "nums_clear_range", !.key = key,
                           !.arg = page_index_to, !.labelled = FALSE,
                           !.before = pl.nums, !.label = <<>>,
                           !.status = "done"]
    /\ UNCHANGED pl_others

Index2Label ==
    /\ pl.status = "ready"
    /\ \E labelled \in BOOLEAN, index \in 0..MaxPage :
          pl' = [pl EXCEPT !.op = "index2label", !.key = 0, !.arg = index,
                           !.labelled = labelled, !.before = pl.nums,
                           !.label = index2label(labelled, pl.nums, index),
                           !.status = "done"]
    /\ UNCHANGED pl_others

PlNext == NumsInsert \/ NumsClearRange \/ Index2Label

SpecLabels == PlInit /\ [][PlNext]_vars

(***************************************************************************)
(* Properties of the page labels                                           *)
(***************************************************************************)
\* the 1-based positions of the keys of a /Nums array
KeyPositions(nums) == {k \in 1..Len(nums) : k % 2 = 1}

\* even length, keys strictly increasing
StrictlySorted(nums) ==
    /\ Len(nums) % 2 = 0
    /\ \A j, k \in KeyPositions(nums) : j < k => nums[j].n < nums[k].n

\* the <<key, value>> pairs of a /Nums array
Pairs(nums) == {<<nums[k].n, nums[k + 1].d>> : k \in KeyPositions(nums)}

\* the number n in the style of a page label dictionary
Render(style, n) ==
    IF style = "/D" THEN str(n)
    ELSE IF style = "/R" THEN to_roman(n)
    ELSE IF style = "/r" THEN lower(to_roman(n))
    ELSE IF style = "/A" THEN to_alpha(n)
    ELSE lower(to_alpha(n))

\* the label the entry with the greatest key <= index gives to index
LabelOf(nums, index) ==
    LET kv == CHOOSE kv \in Pairs(nums) :
                  /\ kv[1] <= index
                  /\ \A other \in Pairs(nums) : other[1] <= index => other[1] <= kv[1]
    IN  dict_get(kv[2], "/P", <<>>)
            \o Render(dict_get(kv[2], "/S", "/D"), index - kv[1] + dict_get(kv[2], "/St", 1))

LabelExample ==
    pl.nums = <<Num(0), Obj({<<"/S", "/r">>}), Num(4), Obj({<<"/S", "/D">>})>> =>
        /\ pl.arg = 0 => pl.label = <<"i">>
        /\ pl.arg = 4 => pl.label = <<"1">>
        /\ pl.arg = 5 => pl.label = <<"2">>

\* C13: index2label on a sorted /Nums array takes the entry with the
\* greatest key k <= index and returns its prefix /P followed by
\* index - k + /St (/St 1 when absent) in its style /S; Nums [0 {S:/r},
\* 4 {S:/D}] gives "i", "1", "2" for 0, 4, 5; without /PageLabels the label
\* is the decimal index + 1.
C13_Index2Label ==
    pl.op = "index2label" =>
        /\ ~pl.labelled => pl.label = str(pl.arg + 1)
        /\ (pl.labelled /\ StrictlySorted(pl.nums)
              /\ \E kv \in Pairs(pl.nums) : kv[1] <= pl.arg) =>
                 pl.label = LabelOf(pl.nums, pl.arg)
        /\ pl.labelled => LabelExample

\* a page in the second range of two, numbered from /St 8 behind "A-"
C13_Witness ==
    /\ pl.op = "index2label" /\ pl.labelled
    /\ StrictlySorted(pl.nums) /\ Len(pl.nums) = 4
    /\ pl.arg = pl.nums[3].n + 1
    /\ pl.label = <<"A", "-", "9">>


\* C15: from the empty array, after nums_insert calls with pairwise
\* distinct keys the array has even length, its keys are strictly
\* increasing, and each key is followed by the value put in with it.
C15_InsertKeepsSorted ==
    (pl.status = "ready" /\ pl.valid) =>
        /\ StrictlySorted(pl.nums)
        /\ Len(pl.nums) = 2 * Cardinality(pl.hist)
        /\ Pairs(pl.nums) = pl.hist

\* the last of two inserts with distinct keys went in front of the first
C15_Witness ==
    /\ pl.status = "ready" /\ pl.valid /\ pl.op = "nums_insert"
    /\ Len(pl.nums) = 4 /\ pl.nums[1].n = pl.key /\ Len(pl.before) = 2

\* nums without the entries whose key is between lo and hi, both excluded
RECURSIVE Outside(_, _, _)
Outside(nums, lo, hi) ==
    IF nums = <<>> THEN <<>>
    ELSE IF lo < nums[1].n /\ nums[1].n < hi
    THEN Outside(Tail(Tail(nums)), lo, hi)
    ELSE <<nums[1], nums[2]>> \o Outside(Tail(Tail(nums)), lo, hi)

\* C16: on a sorted /Nums array nums_clear_range(key, page_index_to, nums)
\* removes the entries with key < k < page_index_to and leaves the others
\* in place and in order, whether or not key is a key of the array.
C16_ClearRangeExact ==
    (pl.op = "nums_clear_range" /\ StrictlySorted(pl.before)) =>
        pl.nums = Outside(pl.before, pl.key, pl.arg)

(***************************************************************************)
(* DictionaryObject.get_inherited                                          *)
(***************************************************************************)
\* dictionaries in the document
MaxNodes == 3

\* the calls the interpreter lets nest before it raises RecursionError
\* (sys.getrecursionlimit(), scaled down)
RecursionLimit == 6

Nodes == 1..MaxNodes

\* the "/Parent" entry of a dictionary: none, a value that is no
\* dictionary, or one of the dictionaries
NoParent == 0

NotADict == -1

ParentValues == {NoParent, NotADict} \cup Nodes

get_inherited_start(parent, has_key, self) ==
    [parent |-> parent, has_key |-> has_key, self |-> self, depth |-> 1,
     result |-> "none", status |-> "running"]

\* one call of get_inherited on st.self: self[key] is returned, or the call
\* goes on in the parent, or default is returned; a call the interpreter
\* cannot nest any more raises RecursionError
get_inherited_step(st) ==
    IF st.has_key[st.self]
    THEN [st EXCEPT !.result = "value", !.status = "returned"]
    ELSE IF st.parent[st.self] # NoParent /\ st.parent[st.self] # NotADict
    THEN IF st.depth >= RecursionLimit
         THEN [st EXCEPT !.status = "RecursionError"]
         ELSE [st EXCEPT !.self = st.parent[st.self], !.depth = @ + 1]
    ELSE [st EXCEPT !.result = "default", !.status = "returned"]

GiInit ==
    /\ gi \in {get_inherited_start(parent, has_key, self) :
                  parent \in [Nodes -> ParentValues],
                  has_key \in [Nodes -> BOOLEAN], self \in Nodes}
    /\ TsIdle /\ FiltersIdle
    /\ hx = Idle /\ a85 = Idle /\ pl = Idle /\ al = Idle /\ sx = Idle
    /\ ii = Idle /\ fp = Idle /\ DocIdle

GiRunning == gi.status = "running"

GiHasParent ==
    gi.parent[gi.self] # NoParent /\ gi.parent[gi.self] # NotADict

GiPass ==
    /\ gi' = get_inherited_step(gi)
    /\ UNCHANGED gi_others

\* line 124: "return self[key]"
GiFound == GiRunning /\ gi.has_key[gi.self] /\ GiPass

\* line 129: "return parent.get_inherited(key, default)"
GiParent ==
    GiRunning /\ ~gi.has_key[gi.self] /\ GiHasParent
        /\ gi.depth < RecursionLimit /\ GiPass

\* line 129, with no frame left for the call
GiTooDeep ==
    GiRunning /\ ~gi.has_key[gi.self] /\ GiHasParent
        /\ gi.depth >= RecursionLimit /\ GiPass

\* line 130: "return default"
GiDefault == GiRunning /\ ~gi.has_key[gi.self] /\ ~GiHasParent /\ GiPass

GiNext == GiFound \/ GiParent \/ GiTooDeep \/ GiDefault

SpecInherited == GiInit /\ [][GiNext]_vars

(***************************************************************************)
(* Properties of get_inherited                                             *)
(***************************************************************************)
\* C17: on every /Parent graph the walk is ended by get_inherited itself,
\* by returning the value or the default or with a PdfReadError; it never
\* recurses until the interpreter's recursion limit stops it.
C17_ParentWalkCutOff ==
    gi.status \in {"idle", "running", "returned", "PdfReadError"}

(***************************************************************************)
(* PdfReader._find_startxref_pos and _utils.read_previous_line             *)
(***************************************************************************)
\* pieces a stream is made of at most
MaxPieces == 5

\* the distance from the end that "stream.seek(-1024, 2)" goes back,
\* scaled down to the streams offered
SeekBack == 20

\* b"startxref"
Keyword == <<115, 116, 97, 114, 116, 120, 114, 101, 102>>

\* the pieces offered: the line ends, a letter, a number, and the keyword
StreamPieces == {<<LF>>, <<CR>>, <<120>>, <<49, 50>>, Keyword}

RECURSIVE Concat(_)
Concat(ps) == IF ps = <<>> THEN <<>> ELSE Head(ps) \o Concat(Tail(ps))

\* b"%%EOF"
EofMarker == <<37, 37, 69, 79, 70>>

\* the end of a PDF file: startxref, the offset 12 on the next line, %%EOF
FileTail == Keyword \o <<LF>> \o <<49, 50>> \o <<LF>> \o EofMarker

\* streams made of the pieces, and streams that end with the end of a PDF
\* file
Streams ==
    {Concat(ps) : ps \in SeqsUpTo(StreamPieces, MaxPieces)}
        \cup {Concat(ps) \o FileTail : ps \in SeqsUpTo(StreamPieces, 2)}

\* "sub in data" for bytes
Contains(data, sub) ==
    \E k \in 0..(Len(data) - Len(sub)) : SubSeq(data, k + 1, k + Len(sub)) = sub

\* read_previous_line from the position pos: the loop of lines 153-162
\* with line collected backwards, then the line and the position the
\* stream is left at
RECURSIVE previous_line_scan(_, _, _, _)
previous_line_scan(data, current_pos, line, at) ==
    IF current_pos > 0
    THEN LET char == At(data, current_pos - 1) IN
         IF char \in {CR, LF}
         THEN IF line # <<>>
              THEN [line |-> Reverse(line), pos |-> current_pos]
              ELSE previous_line_scan(data, current_pos - 1, line, current_pos)
         ELSE previous_line_scan(data, current_pos - 1, Append(line, char), current_pos)
    ELSE [line |-> Reverse(line), pos |-> at]

read_previous_line(data, pos) == previous_line_scan(data, pos, <<>>, pos)

\* int(line) is defined on the decimal digits
IsInt(line) == line # <<>> /\ \A k \in 1..Len(line) : line[k] \in 48..57

\* the stream is an io.BytesIO, where seek before the start gives 0, or a
\* file, where it raises OSError
SxInit ==
    /\ sx \in {[kind |-> kind, data |-> data, pos |-> 0, line |-> <<>>,
                result |-> <<>>, pass |-> 0, status |-> "start"] :
                  kind \in {"BytesIO", "file"}, data \in Streams}
    /\ TsIdle /\ FiltersIdle
    /\ hx = Idle /\ a85 = Idle /\ pl = Idle /\ al = Idle /\ gi = Idle
    /\ ii = Idle /\ fp = Idle /\ DocIdle

\* lines 221-222
SxSeek ==
    /\ sx.status = "start"
    /\ sx' = IF sx.kind = "file" /\ Len(sx.data) < SeekBack
             THEN [sx EXCEPT !.status = "OSError"]
             ELSE [sx EXCEPT !.pos = IF Len(sx.data) < SeekBack THEN 0
                                     ELSE Len(sx.data) - SeekBack,
                             !.status = "loop"]
    /\ UNCHANGED sx_others

\* lines 223-224: one pass through the loop; pass is the parity of the
\* number of passes made
SxReadLine ==
    /\ sx.status = "loop"
    /\ ~Contains(sx.line, Keyword)
    /\ LET r == read_previous_line(sx.data, sx.pos) IN
       sx' = [sx EXCEPT !.line = r.line, !.pos = r.pos, !.pass = 1 - @]
    /\ UNCHANGED sx_others

\* line 225
SxReturn ==
    /\ sx.status = "loop"
    /\ Contains(sx.line, Keyword)
    /\ LET r == read_previous_line(sx.data, sx.pos) IN
       sx' = IF IsInt(r.line)
             THEN [sx EXCEPT !.result = r.line, !.pos = r.pos, !.status = "returned"]
             ELSE [sx EXCEPT !.pos = r.pos, !.status = "ValueError"]
    /\ UNCHANGED sx_others

SxNext == SxSeek \/ SxReadLine \/ SxReturn

\* the call is not suspended for ever: each step that can be taken is
\* taken
SpecStartxref == SxInit /\ [][SxNext]_vars /\ WF_vars(SxNext)

(***************************************************************************)
(* Properties of _find_startxref_pos                                       *)
(***************************************************************************)
\* C18: on a stream without the keyword startxref the call ends, and
\* ends with an error.
C18_MissingStartxrefRaises ==
    (sx.status = "start" /\ ~Contains(sx.data, Keyword))
        ~> (sx.status \in {"OSError", "ValueError", "PdfReadError", "PdfStreamError"})

\* the stream ends with the end of a PDF file, which lies within the
\* distance from the end that the seek goes back
EndsWithFileTail(data) ==
    /\ Len(FileTail) <= SeekBack
    /\ endswith(data, FileTail)

\* C24: on a stream that ends with startxref, a line with the number N and
\* %%EOF, all within the distance of the seek from the end, the call
\* returns N.
C24_ReturnsOffsetAfterStartxref ==
    (sx.status = "start" /\ EndsWithFileTail(sx.data))
        ~> (sx.status = "returned" /\ sx.result = <<49, 50>>)

(***************************************************************************)
(* generic/_image_inline: the extract_inline_* functions                   *)
(***************************************************************************)
MaxInlineLen == 3

BUFFER_SIZE == 8192

\* b"EI"
EI == <<69, 73>>

\* the bytes offered: the digit 4, '>', '~', 'E', 'I' and a space
InlineBytes == {52, GT, TILDE, 69, 73, SP}

Extractors ==
    {"extract_inline_AHx", "extract_inline_A85", "extract_inline_RL",
     "extract_inline_DCT", "extract_inline_default"}

\* stream.read(n) at the position of st: the bytes read, none at the end
read(st, n) == Slice(st.data, st.pos, st.pos + n)

\* the position after stream.read(n)
after_read(st, n) == [st EXCEPT !.pos = Min(st.pos + n, Len(st.data))]

\* "from .filters import ...": the module pypdf.generic.filters is not
\* among these sources; filters tells whether the import finds it
import_filters(st, r) ==
    IF ~st.filters THEN [st EXCEPT !.status = "ModuleNotFoundError"]
    ELSE IF r.ok THEN [st EXCEPT !.out = r.out, !.status = "returned"]
    ELSE [st EXCEPT !.status = r.out]

\* lines 14-29: one pass through "while True", and what follows the break
extract_inline_AHx(st) ==
    LET char == read(st, 1)
        st1  == after_read(st, 1)
    IN  IF char = <<GT>>
        THEN LET next_char == read(st1, 1)
                 st2       == after_read(st1, 1)
             IN  IF next_char = <<GT>>
                 THEN LET r == IF \E k \in 1..Len(st.buf) : st.buf[k] > 127
                               THEN [ok |-> FALSE, out |-> "ValueError"]
                               ELSE fromhex(st.buf)
                      IN  IF r.ok THEN [st2 EXCEPT !.out = r.out, !.status = "returned"]
                          ELSE [st2 EXCEPT !.status = r.out]
                 ELSE [st2 EXCEPT !.buf = @ \o char \o next_char]
        ELSE IF char # <<>> /\ char[1] \in WHITESPACES THEN st1
        ELSE [st1 EXCEPT !.buf = @ \o char]

\* lines 37-50
extract_inline_A85(st) ==
    LET char == read(st, 1)
        st1  == after_read(st, 1)
    IN  IF char = <<TILDE>>
        THEN LET next_char == read(st1, 1)
                 st2       == after_read(st1, 1)
             IN  IF next_char = <<GT>>
                 THEN import_filters(st2, ASCII85Decode(st.buf))
                 ELSE [st2 EXCEPT !.buf = @ \o char \o next_char]
        ELSE [st1 EXCEPT !.buf = @ \o char]

\* lines 58-68 and 102-112: the loop the two functions share; SEEK_CUR is
\* no name of the module, so "stream.seek(-2, SEEK_CUR)" raises NameError
\* and neither RunLengthDecode.decode nor "return data.getvalue()" is
\* reached
extract_inline_EI(st) ==
    LET byte == read(st, 1)
        st1  == after_read(st, 1)
    IN  IF byte = <<69>>
        THEN LET next_byte == read(st1, 1)
                 st2       == after_read(st1, 1)
             IN  IF next_byte = <<73>>
                 THEN [st2 EXCEPT !.status = "NameError"]
                 ELSE [st2 EXCEPT !.buf = @ \o byte \o next_byte]
        ELSE [st1 EXCEPT !.buf = @ \o byte]

\* lines 80-94: "stream.seek(..., SEEK_CUR)" raises NameError here too
extract_inline_DCT(st) ==
    LET chunk == read(st, BUFFER_SIZE)
        st1   == after_read(st, BUFFER_SIZE)
    IN  IF chunk = <<>> THEN [st1 EXCEPT !.status = "PdfReadError"]
        ELSE IF Contains(chunk, EI)
        THEN [st1 EXCEPT !.buf = @ \o chunk, !.status = "NameError"]
        ELSE [st1 EXCEPT !.buf = @ \o chunk]

IiInit ==
    /\ ii \in {[fn |-> fn, data |-> data, pos |-> 0, buf |-> <<>>, out |-> <<>>,
                filters |-> filters, pass |-> 0, status |-> "loop"] :
                  fn \in Extractors, data \in SeqsUpTo(InlineBytes, MaxInlineLen),
                  filters \in BOOLEAN}
    /\ TsIdle /\ FiltersIdle
    /\ hx = Idle /\ a85 = Idle /\ pl = Idle /\ al = Idle /\ gi = Idle
    /\ sx = Idle /\ fp = Idle /\ DocIdle

\* one pass through the "while True" loop of the function; pass is the
\* parity of the number of passes made
IiAHx ==
    /\ ii.status = "loop" /\ ii.fn = "extract_inline_AHx"
    /\ ii' = [extract_inline_AHx(ii) EXCEPT !.pass = 1 - @]
    /\ UNCHANGED ii_others

IiA85 ==
    /\ ii.status = "loop" /\ ii.fn = "extract_inline_A85"
    /\ ii' = [extract_inline_A85(ii) EXCEPT !.pass = 1 - @]
    /\ UNCHANGED ii_others

IiRL ==
    /\ ii.status = "loop" /\ ii.fn = "extract_inline_RL"
    /\ ii' = [extract_inline_EI(ii) EXCEPT !.pass = 1 - @]
    /\ UNCHANGED ii_others

IiDCT ==
    /\ ii.status = "loop" /\ ii.fn = "extract_inline_DCT"
    /\ ii' = [extract_inline_DCT(ii) EXCEPT !.pass = 1 - @]
    /\ UNCHANGED ii_others

IiDefault ==
    /\ ii.status = "loop" /\ ii.fn = "extract_inline_default"
    /\ ii' = [extract_inline_EI(ii) EXCEPT !.pass = 1 - @]
    /\ UNCHANGED ii_others

IiNext == IiAHx \/ IiA85 \/ IiRL \/ IiDCT \/ IiDefault

\* the call is not suspended for ever
SpecInline == IiInit /\ [][IiNext]_vars /\ WF_vars(IiNext)

(***************************************************************************)
(* Properties of the inline image extractors                               *)
(***************************************************************************)
\* the stream ends before the terminator of the function: '>' for AHx,
\* "~>" for A85, "EI" for the others
Truncated(st) ==
    IF st.fn = "extract_inline_AHx" THEN ~Contains(st.data, <<GT>>)
    ELSE IF st.fn = "extract_inline_A85" THEN ~Contains(st.data, A85END)
    ELSE ~Contains(st.data, EI)

\* C19: a call on a stream that ends before the terminator ends, with a
\* read error.
C19_TruncatedInlineImageRaises ==
    (ii.status = "loop" /\ ii.pos = 0 /\ Truncated(ii))
        ~> (ii.status \in {"PdfReadError", "PdfStreamError"})

\* the offset of the first "EI" in data
FirstEI(data) ==
    SetMin({k \in 0..(Len(data) - 2) : Slice(data, k, k + 2) = EI})

\* C26: on a stream that holds the terminator EI, extract_inline_default
\* and extract_inline_RL end by returning the bytes before the first EI
\* (run-length decoded for RL) with the stream left on that E.
C26_InlineDataUpToEI ==
    (/\ ii.status \notin {"idle", "loop"}
     /\ ii.fn \in {"extract_inline_default", "extract_inline_RL"}
     /\ Contains(ii.data, EI))
    => /\ ii.status = "returned"
       /\ ii.pos = FirstEI(ii.data)
       /\ ii.fn = "extract_inline_default" =>
             ii.out = Slice(ii.data, 0, FirstEI(ii.data))
       /\ ii.fn = "extract_inline_RL" =>
             ii.out = RunLengthDecode(Slice(ii.data, 0, FirstEI(ii.data))).out

(***************************************************************************)
(* pagerange.parse_filename_page_ranges                                    *)
(***************************************************************************)
MaxArgs == 4

\* a slice: each of start, stop, step is <<>> for None or <<n>>
slice(start, stop, step) == [start |-> start, stop |-> stop, step |-> step]

\* PAGE_RANGE_ALL = PageRange(':')
PAGE_RANGE_ALL == slice(<<>>, <<>>, <<>>)

\* the arguments offered, each with its type: None, two file names, two
\* page-range expressions, a PageRange object, a slice object, an int
ArgValues ==
    {[t |-> "NoneType", v |-> "None"],
     [t |-> "str", v |-> "a.pdf"], [t |-> "str", v |-> "b.pdf"],
     [t |-> "str", v |-> "1:3"], [t |-> "str", v |-> "0"],
     [t |-> "PageRange", v |-> "2:"], [t |-> "slice", v |-> "slice(0, 2)"],
     [t |-> "int", v |-> "7"]}

\* PageRange.valid on the strings offered: what PAGE_RANGE_RE matches
valid(arg) ==
    \/ arg.t \in {"PageRange", "slice"}
    \/ arg.t = "str" /\ arg.v \in {"1:3", "0"}

\* PageRange(arg) on the range arguments offered: a single int n is
\* slice(n, n + 1), "a:b" is slice(a, b), an object keeps its slice
PageRange(arg) ==
    IF arg.v = "1:3" THEN slice(<<1>>, <<3>>, <<>>)
    ELSE IF arg.v = "0" THEN slice(<<0>>, <<1>>, <<>>)
    ELSE IF arg.v = "2:" THEN slice(<<2>>, <<>>, <<>>)
    ELSE slice(<<0>>, <<2>>, <<>>)

\* current_filename is None
NoFilename == [t |-> "NoneType", v |-> "None"]

parse_start(args) ==
    [args |-> args, k |-> 0, result |-> <<>>, current_filename |-> NoFilename,
     status |-> "loop"]

\* one pass through "for arg in args", or what follows the loop
parse_step(st) ==
    IF st.k >= Len(st.args)
    THEN [st EXCEPT !.result = IF st.current_filename # NoFilename
                               THEN Append(@, <<st.current_filename.v, PAGE_RANGE_ALL>>)
                               ELSE @,
                    !.status = "returned"]
    ELSE LET arg == At(st.args, st.k)
             nx  == [st EXCEPT !.k = @ + 1]
         IN  IF arg.t = "NoneType" THEN nx
             ELSE IF arg.t = "str"
             THEN IF valid(arg)
                  THEN IF st.current_filename = NoFilename
                       THEN [st EXCEPT !.status = "ValueError"]
                       ELSE [nx EXCEPT !.result =
                                Append(@, <<st.current_filename.v, PageRange(arg)>>)]
                  ELSE [nx EXCEPT !.result =
                                IF st.current_filename # NoFilename
                                THEN Append(@, <<st.current_filename.v, PAGE_RANGE_ALL>>)
                                ELSE @,
                              !.current_filename = arg]
             ELSE IF arg.t \in {"PageRange", "slice"}
             THEN IF st.current_filename = NoFilename
                  THEN [st EXCEPT !.status = "ValueError"]
                  ELSE [nx EXCEPT !.result =
                           Append(@, <<st.current_filename.v, PageRange(arg)>>)]
             ELSE [st EXCEPT !.status = "TypeError"]

FpInit ==
    /\ fp \in {parse_start(args) : args \in SeqsUpTo(ArgValues, MaxArgs)}
    /\ TsIdle /\ FiltersIdle
    /\ hx = Idle /\ a85 = Idle /\ pl = Idle /\ al = Idle /\ gi = Idle
    /\ sx = Idle /\ ii = Idle /\ DocIdle

FpInLoop == fp.status = "loop" /\ fp.k < Len(fp.args)

FpPass ==
    /\ fp' = parse_step(fp)
    /\ UNCHANGED fp_others

\* lines 158-159
FpNone == FpInLoop /\ At(fp.args, fp.k).t = "NoneType" /\ FpPass

\* lines 161-164
FpRangeString ==
    FpInLoop /\ At(fp.args, fp.k).t = "str" /\ valid(At(fp.args, fp.k)) /\ FpPass

\* lines 165-168
FpFilename ==
    FpInLoop /\ At(fp.args, fp.k).t = "str" /\ ~valid(At(fp.args, fp.k)) /\ FpPass

\* lines 169-172
FpRangeObject ==
    FpInLoop /\ At(fp.args, fp.k).t \in {"PageRange", "slice"} /\ FpPass

\* lines 173-174
FpUnexpected ==
    FpInLoop /\ At(fp.args, fp.k).t \notin {"NoneType", "str", "PageRange", "slice"}
        /\ FpPass

\* lines 176-179
FpReturn == fp.status = "loop" /\ fp.k >= Len(fp.args) /\ FpPass

FpNext ==
    \/ FpNone
    \/ FpRangeString
    \/ FpFilename
    \/ FpRangeObject
    \/ FpUnexpected
    \/ FpReturn

SpecPageRanges == FpInit /\ [][FpNext]_vars

(***************************************************************************)
(* Properties of parse_filename_page_ranges                                *)
(***************************************************************************)
IsFilename(arg) == arg.t = "str" /\ ~valid(arg)

\* the arguments that are not None
RECURSIVE Given(_)
Given(args) ==
    IF args = <<>> THEN <<>>
    ELSE IF Head(args).t = "NoneType" THEN Given(Tail(args))
    ELSE <<Head(args)>> \o Given(Tail(args))

\* the pairs wanted for the arguments from the k-th on: a page range goes
\* with the file name before it, a file name with no page range behind it
\* stands for all its pages
RECURSIVE Wanted(_, _, _)
Wanted(args, k, filename) ==
    IF k > Len(args) THEN <<>>
    ELSE IF IsFilename(args[k])
    THEN (IF k = Len(args) \/ IsFilename(args[k + 1])
          THEN << <<args[k].v, PAGE_RANGE_ALL>> >> ELSE <<>>)
            \o Wanted(args, k + 1, args[k].v)
    ELSE << <<filename, PageRange(args[k])>> >> \o Wanted(args, k + 1, filename)

\* C20: the call returns, in the order of the arguments, a pair for every
\* page range, with the file name before it, and one all-pages pair for
\* each file name that no page range follows; a file name with page
\* ranges gets no all-pages pair.
C20_PairsPerArgument ==
    fp.status = "returned" => fp.result = Wanted(Given(fp.args), 1, "None")

(***************************************************************************)
(* _reader.PdfReader: __init__, decrypt, is_encrypted                      *)
(***************************************************************************)
MaxCalls == 2

\* the passwords a caller gives; the owner password of every document is
\* "owner", its user password is "user" or empty
Passwords == {"user", "owner", "wrong"}

\* the documents: the trailer has /Encrypt or not, /ID or not
Documents ==
    [encrypt : BOOLEAN, id : BOOLEAN, user_password : {"", "user"}]

\* Encryption.verify: which of the document's passwords pwd is
verify(doc, pwd) ==
    IF pwd = doc.user_password THEN "USER_PASSWORD"
    ELSE IF pwd = "owner" THEN "OWNER_PASSWORD"
    ELSE "NOT_DECRYPTED"

\* line 278: "return self._encryption is not None"
is_encrypted(r) == r._encryption # None

\* lines 53-67: the constructor after self.read(stream) has filled the
\* trailer
reader_init(r) ==
    LET r1 == [r EXCEPT !.trailer = [encrypt |-> r.doc.encrypt, id |-> r.doc.id],
                        !._override_encryption = FALSE,
                        !._encryption = None]
    IN  IF is_encrypted(r1)
        THEN LET r2  == [r1 EXCEPT !._override_encryption = TRUE,
                                   !._encryption = "Encryption"]
                 pwd == IF r.password # None THEN r.password ELSE ""
             IN  IF verify(r.doc, pwd) = "NOT_DECRYPTED" /\ r.password # None
                 THEN [r2 EXCEPT !.status = "WrongPasswordError"]
                 ELSE [r2 EXCEPT !._override_encryption = FALSE,
                                 !.status = "constructed"]
        ELSE IF r.password # None
        THEN [r1 EXCEPT !.status = "PdfReadError"]
        ELSE [r1 EXCEPT !.status = "constructed"]

\* lines 266-268
decrypt(r, password) ==
    IF ~is_encrypted(r) THEN "PdfReadError" ELSE verify(r.doc, password)

RdInit ==
    /\ rd \in {[doc |-> doc, strict |-> strict, password |-> password,
                trailer |-> [encrypt |-> FALSE, id |-> FALSE],
                _override_encryption |-> FALSE, _encryption |-> None,
                calls |-> 0, last |-> None, status |-> "new"] :
                  doc \in Documents, strict \in BOOLEAN,
                  password \in Passwords \cup {None}}
    /\ TsIdle /\ FiltersIdle
    /\ hx = Idle /\ a85 = Idle /\ pl = Idle /\ al = Idle /\ gi = Idle
    /\ sx = Idle /\ ii = Idle /\ fp = Idle
    /\ pr = Idle /\ pv = Idle /\ tr = Idle

rd_others == <<ts_vars, filter_vars, hx, a85, pl, al, gi, sx, ii, fp, pr, pv, tr>>

\* PdfReader(stream, strict, password); self.read(stream) reads the
\* document or raises
RdConstruct ==
    /\ rd.status = "new"
    /\ \E read_ok \in BOOLEAN :
         rd' = IF read_ok THEN reader_init(rd)
               ELSE [rd EXCEPT !.status = "read failed"]
    /\ UNCHANGED rd_others

\* reader.decrypt(password); an error it raises leaves the reader as it is
RdDecrypt ==
    /\ rd.status = "constructed"
    /\ rd.calls < MaxCalls
    /\ \E password \in Passwords :
         rd' = [rd EXCEPT !.last = decrypt(rd, password), !.calls = @ + 1]
    /\ UNCHANGED rd_others

RdNext == RdConstruct \/ RdDecrypt

SpecReader == RdInit /\ [][RdNext]_vars

(***************************************************************************)
(* Properties of PdfReader.is_encrypted                                    *)
(***************************************************************************)
\* C21: a constructed reader of a document with /Encrypt is encrypted,
\* before and after decrypt(); a reader of a document without /Encrypt is
\* not, and a password given for such a document ends the constructor with
\* PdfReadError.
C21_IsEncryptedFollowsTrailer ==
    /\ rd.status = "constructed" => (is_encrypted(rd) <=> rd.doc.encrypt)
    /\ (rd.status \notin {"idle", "new", "read failed"}
            /\ ~rd.doc.encrypt /\ rd.password # None)
         => rd.status = "PdfReadError"

(***************************************************************************)
(* _utils.read_previous_line                                               *)
(***************************************************************************)
MaxLineLen == 5

MaxReads == 3

\* line ends and two other bytes
LineBytes == {CR, LF, 97, 98}

\* a stream and the position X it is at
PvInit ==
    /\ pv \in {[data |-> data, pos |-> pos, from |-> pos, line |-> <<>>,
                reads |-> 0, status |-> "ready"] :
                  data \in SeqsUpTo(LineBytes, MaxLineLen), pos \in 0..MaxLineLen}
    /\ pv.pos <= Len(pv.data)
    /\ TsIdle /\ FiltersIdle
    /\ hx = Idle /\ a85 = Idle /\ pl = Idle /\ al = Idle /\ gi = Idle
    /\ sx = Idle /\ ii = Idle /\ fp = Idle
    /\ pr = Idle /\ rd = Idle /\ tr = Idle

pv_others == <<ts_vars, filter_vars, hx, a85, pl, al, gi, sx, ii, fp, pr, rd, tr>>

\* a line end is found before the position, after some other byte
PvLineEndBefore ==
    \E k \in 1..pv.pos :
        /\ pv.data[k] \in {CR, LF}
        /\ \E j \in (k + 1)..pv.pos : pv.data[j] \notin {CR, LF}

PvCall ==
    /\ pv.reads < MaxReads
    /\ LET r == read_previous_line(pv.data, pv.pos) IN
       pv' = [pv EXCEPT !.line = r.line, !.pos = r.pos, !.from = pv.pos,
                        !.reads = @ + 1, !.status = "returned"]
    /\ UNCHANGED pv_others

\* read_previous_line(stream): the loop returns at a line end
PvAtLineEnd == PvLineEndBefore /\ PvCall

\* read_previous_line(stream): the loop runs to the start of the stream
PvToStart == ~PvLineEndBefore /\ PvCall

PvNext == PvAtLineEnd \/ PvToStart

SpecPrevLine == PvInit /\ [][PvNext]_vars

(***************************************************************************)
(* Properties of read_previous_line                                        *)
(***************************************************************************)
\* the offsets below X that hold a CR or LF
LineEndsBefore(data, X) == {k \in 0..(X - 1) : At(data, k) \in {CR, LF}}

SetMax(S) == CHOOSE x \in S : \A y \in S : x >= y

\* the bytes between the first CR/LF found before X, or the start of the
\* file, and X
LineBefore(data, X) ==
    IF LineEndsBefore(data, X) = {} THEN Slice(data, 0, X)
    ELSE Slice(data, SetMax(LineEndsBefore(data, X)) + 1, X)

\* one byte after the first byte other than CR/LF found beyond that CR/LF,
\* or 0 when there is none
PositionBefore(data, X) ==
    IF LineEndsBefore(data, X) = {} THEN 0
    ELSE LET c == SetMax(LineEndsBefore(data, X))
             others == {k \in 0..(c - 1) : At(data, k) \notin {CR, LF}}
         IN  IF others = {} THEN 0 ELSE SetMax(others) + 1

\* C25: a call at position X returns the bytes between the first CR/LF
\* before X (or the start) and X, leaves the stream one byte after the first
\* other byte beyond that CR/LF (or at 0), and so below X when X > 0.
C25_PreviousLine ==
    pv.status = "returned" =>
        /\ pv.line = LineBefore(pv.data, pv.from)
        /\ pv.pos = PositionBefore(pv.data, pv.from)
        /\ pv.from > 0 => pv.pos < pv.from

(***************************************************************************)
(* generic/_data_structures.TreeObject: remove_from_tree                   *)
(***************************************************************************)
MaxChildren == 4

MaxRemoves == 3

\* a key that the dictionary does not hold
Absent == 0

\* a parent with the children 1..n in a sibling list: /First, /Last and
\* /Count in the parent, /Parent in each child, /Next in all but the last
\* and /Prev in all but the first
tree_start(n) ==
    [n |-> n, First |-> 1, Last |-> n, Count |-> n,
     nodes |-> [k \in 1..n |->
                  [Parent |-> TRUE,
                   Next |-> IF k < n THEN k + 1 ELSE Absent,
                   Prev |-> IF k > 1 THEN k - 1 ELSE Absent]],
     self |-> 0, removes |-> 0, status |-> "ready"]

\* lines 187-201: _remove_node_from_tree(prev, prev_ref, cur, last) of the
\* parent, prev = Absent standing for None.  __setitem__ (lines 132-137)
\* raises ValueError for the value None.
remove_node_from_tree(t, prev, cur, last) ==
    IF prev = Absent
    THEN IF last = cur
         THEN [t EXCEPT !.status = "ValueError"]
         ELSE IF t.nodes[cur].Next = Absent
         THEN [t EXCEPT !.status = "KeyError"]
         ELSE [t EXCEPT !.First = t.nodes[cur].Next, !.status = "ValueError"]
    ELSE IF last = cur
    THEN [t EXCEPT !.Last = prev, !.status = "ValueError"]
    ELSE IF t.nodes[cur].Next = Absent
    THEN [t EXCEPT !.status = "KeyError"]
    ELSE [t EXCEPT !.nodes[prev].Next = t.nodes[cur].Next,
                   !.nodes[t.nodes[cur].Next].Prev = prev,
                   !.Count = @ - 1]

\* lines 230-234
reset_node_tree_relationship(t, child) ==
    [t EXCEPT !.nodes[child] = [Parent |-> FALSE, Next |-> Absent, Prev |-> Absent]]

\* lines 212-218: the loop from cur, with prev the node before it
RECURSIVE remove_scan(_, _, _, _)
remove_scan(t, self, prev, cur) ==
    IF cur = self
    THEN remove_node_from_tree(t, prev, cur, t.Last)
    ELSE IF t.nodes[cur].Next = Absent
    THEN [t EXCEPT !.status = "KeyError"]
    ELSE remove_scan(t, self, cur, t.nodes[cur].Next)

\* lines 205-219: remove_from_tree of the node self
remove_from_tree(t, self) ==
    LET t0 == [t EXCEPT !.self = self, !.status = "returned"] IN
    IF ~t.nodes[self].Parent THEN t0
    ELSE LET t1 == remove_scan(t0, self, Absent, t.First)
         IN  IF t1.status # "returned" THEN t1
             ELSE reset_node_tree_relationship(t1, self)

TrInit ==
    /\ tr \in {tree_start(n) : n \in 1..MaxChildren}
    /\ TsIdle /\ FiltersIdle
    /\ hx = Idle /\ a85 = Idle /\ pl = Idle /\ al = Idle /\ gi = Idle
    /\ sx = Idle /\ ii = Idle /\ fp = Idle
    /\ pr = Idle /\ rd = Idle /\ pv = Idle

tr_others == <<ts_vars, filter_vars, hx, a85, pl, al, gi, sx, ii, fp, pr, rd, pv>>

\* child.remove_from_tree() for one of the nodes; an error it raises leaves
\* the objects as they are at that point
TrRemove(self) ==
    /\ tr.removes < MaxRemoves
    /\ tr' = [remove_from_tree(tr, self) EXCEPT !.removes = @ + 1]
    /\ UNCHANGED tr_others

\* the node is in no tree
TrDetached == \E self \in 1..tr.n : ~tr.nodes[self].Parent /\ TrRemove(self)

\* the node has a /Parent
TrChild == \E self \in 1..tr.n : tr.nodes[self].Parent /\ TrRemove(self)

TrNext == TrDetached \/ TrChild

SpecTree == TrInit /\ [][TrNext]_vars

(***************************************************************************)
(* Properties of TreeObject.remove_from_tree                               *)
(***************************************************************************)
\* the nodes met by following /Next from cur, at most fuel of them
RECURSIVE Walk(_, _, _)
Walk(t, cur, fuel) ==
    IF fuel = 0 THEN <<>>
    ELSE IF t.nodes[cur].Next = Absent THEN <<cur>>
    ELSE <<cur>> \o Walk(t, t.nodes[cur].Next, fuel - 1)

\* the children of the parent in their order
Children(t) == Walk(t, t.First, t.n)

\* the sibling list is as add_child leaves it
WellFormed(t) ==
    LET cs == Children(t) IN
    /\ Len(cs) = t.Count
    /\ Last(cs) = t.Last
    /\ \A k \in 1..Len(cs) :
          /\ t.nodes[cs[k]].Parent
          /\ t.nodes[cs[k]].Prev = IF k > 1 THEN cs[k - 1] ELSE Absent
          /\ \A j \in 1..Len(cs) : cs[j] = cs[k] => j = k

\* C28: remove_from_tree of a child of a well-formed sibling list returns,
\* leaves the other children in their order from /First to /Last, makes
\* /Count one less and takes /Parent, /Next and /Prev from the node.
C28_RemoveFromTree ==
    [][\A self \in 1..tr.n :
          (/\ WellFormed(tr)
           /\ tr.nodes[self].Parent
           /\ \E k \in 1..Len(Children(tr)) : Children(tr)[k] = self
           /\ tr'.self = self /\ tr'.removes = tr.removes + 1)
          => /\ tr'.status = "returned"
             /\ Children(tr') = SelectSeq(Children(tr), LAMBDA c : c # self)
             /\ tr'.Last = Last(Children(tr'))
             /\ tr'.Count = tr.Count - 1
             /\ tr'.nodes[self] = [Parent |-> FALSE, Next |-> Absent, Prev |-> Absent]
      ]_vars

(***************************************************************************)
(* pagerange.PageRange: __init__, __str__, __eq__                          *)
(***************************************************************************)
MaxRangeLen == 4

MaxIndex == 2

\* the characters of the strings offered
RangeChars == {"0", "1", "2", "-", ":"}

DigitValue(c) == (CHOOSE k \in 1..10 : Digits[k] = c) - 1

IsDigit(c) == \E k \in 1..10 : Digits[k] = c

\* _INT_RE: '(0|-?[1-9]\d*)'
IsIntText(t) ==
    \/ t = <<"0">>
    \/ LET d == IF t # <<>> /\ t[1] = "-" THEN Tail(t) ELSE t IN
       /\ d # <<>>
       /\ d[1] # "0"
       /\ \A k \in 1..Len(d) : IsDigit(d[k])

\* int(t) for a text that _INT_RE matches
RECURSIVE NatOf(_)
NatOf(d) ==
    IF d = <<>> THEN 0 ELSE 10 * NatOf(Front(d)) + DigitValue(Last(d))

int(t) == IF t[1] = "-" THEN 0 - NatOf(Tail(t)) ELSE NatOf(t)

\* str(i) for an int
int_str(i) == IF i < 0 THEN <<"-">> \o str(0 - i) ELSE str(i)

\* the text cut at its colons
RECURSIVE split(_)
split(t) ==
    IF \A k \in 1..Len(t) : t[k] # ":" THEN <<t>>
    ELSE LET k == SetMin({j \in 1..Len(t) : t[j] = ":"})
         IN  <<SubSeq(t, 1, k - 1)>> \o split(SubSeq(t, k + 1, Len(t)))

\* re.match(PAGE_RANGE_RE, t): one int, or two or three ints, each of which
\* may be missing, with a colon between them
match(t) ==
    LET fs == split(t) IN
    \/ IsIntText(t)
    \/ /\ Len(fs) \in {2, 3}
       /\ \A k \in 1..Len(fs) : fs[k] = <<>> \/ IsIntText(fs[k])

\* "int(g) if g else None"
int_or_none(fs, k) ==
    IF k <= Len(fs) /\ fs[k] # <<>> THEN <<int(fs[k])>> ELSE <<>>

\* lines 60-69: PageRange(arg) for a str; group(2) is the text when it is
\* one int
PageRange_from_str(t) ==
    IF ~match(t) THEN [ok |-> FALSE, s |-> PAGE_RANGE_ALL]
    ELSE IF IsIntText(t)
    THEN LET start == int(t) IN
         [ok |-> TRUE,
          s |-> slice(<<start>>, IF start # -1 THEN <<start + 1>> ELSE <<>>, <<>>)]
    ELSE LET fs == split(t) IN
         [ok |-> TRUE,
          s |-> slice(int_or_none(fs, 1), int_or_none(fs, 2), int_or_none(fs, 3))]

\* "'' if i is None else str(i)"
index_str(i) == IF i = <<>> THEN <<>> ELSE int_str(i[1])

\* lines 94-102: __str__
PageRange_str(s) ==
    IF s.step = <<>>
    THEN IF s.start # <<>> /\ s.stop = <<s.start[1] + 1>>
         THEN int_str(s.start[1])
         ELSE index_str(s.start) \o <<":">> \o index_str(s.stop)
    ELSE index_str(s.start) \o <<":">> \o index_str(s.stop)
            \o <<":">> \o index_str(s.step)

\* None or an int
Indices == {<<>>} \cup {<<i>> : i \in (0 - MaxIndex)..MaxIndex}

\* the arguments: strings, valid or not, and slices of ints and None
RangeArgs ==
    {[t |-> "str", text |-> t, s |-> PAGE_RANGE_ALL] :
        t \in SeqsUpTo(RangeChars, MaxRangeLen)}
      \cup {[t |-> "slice", text |-> <<>>, s |-> slice(a, b, c)] :
              a \in Indices, b \in Indices, c \in Indices}

PrInit ==
    /\ pr \in {[arg |-> arg, r |-> PAGE_RANGE_ALL, text |-> <<>>,
                r2 |-> PAGE_RANGE_ALL, err |-> FALSE, status |-> "new"] : arg \in RangeArgs}
    /\ TsIdle /\ FiltersIdle
    /\ hx = Idle /\ a85 = Idle /\ pl = Idle /\ al = Idle /\ gi = Idle
    /\ sx = Idle /\ ii = Idle /\ fp = Idle
    /\ rd = Idle /\ pv = Idle /\ tr = Idle

pr_others == <<ts_vars, filter_vars, hx, a85, pl, al, gi, sx, ii, fp, rd, pv, tr>>

\* r = PageRange(arg)
PrConstruct ==
    /\ pr.status = "new"
    /\ pr' = IF pr.arg.t = "slice"
             THEN [pr EXCEPT !.r = pr.arg.s, !.status = "built"]
             ELSE LET p == PageRange_from_str(pr.arg.text) IN
                  IF p.ok THEN [pr EXCEPT !.r = p.s, !.status = "built"]
                  ELSE [pr EXCEPT !.status = "ParseError"]
    /\ UNCHANGED pr_others

\* text = str(r)
PrStr ==
    /\ pr.status = "built"
    /\ pr' = [pr EXCEPT !.text = PageRange_str(pr.r), !.status = "printed"]
    /\ UNCHANGED pr_others

\* r2 = PageRange(text), or err when it raises ParseError
PrParse ==
    /\ pr.status = "printed"
    /\ LET p == PageRange_from_str(pr.text) IN
       pr' = [pr EXCEPT !.r2 = p.s, !.err = ~p.ok, !.status = "parsed"]
    /\ UNCHANGED pr_others

PrNext == PrConstruct \/ PrStr \/ PrParse

SpecPageRange == PrInit /\ [][PrNext]_vars

(***************************************************************************)
(* Properties of PageRange                                                 *)
(***************************************************************************)
\* C30: for a range r built from a valid string or from a slice,
\* PageRange(str(r)) is built without error and equals r (line 126: the
\* slices are equal).
C30_StrRoundTrip ==
    pr.status = "parsed" => ~pr.err /\ pr.r2 = pr.r

=============================================================================
